---- MODULE Spec2Model ----
(***************************************************************************)
(* The PoC generator's LLM dispatch engine (llm-poc-generator.ts) as the   *)
(* patch scripts fix-poc-gen.py and fix-poc-review.py leave it: the        *)
(* environment-driven configuration (safeInt, POC_CFG), the provider       *)
(* resolver, callLLM's attempt loop and the pLimit/Promise.all dispatch    *)
(* loop with its inter-request cooldown.                                   *)
(*                                                                         *)
(* Strings are sequences of one-character strings, so that toLowerCase,    *)
(* includes, trim, slice and parseInt are computed as the code computes    *)
(* them.  Time is counted in milliseconds and advances TickMs at a time.   *)
(***************************************************************************)
EXTENDS Integers, Sequences, FiniteSets, TLC

VARIABLES
    env,          \* process.env: the variables the generator reads
    phase,        \* "boot" | "loaded" | "running": module load, then the dispatch
    cfg,          \* POC_CFG
    stub,         \* the responses the simulated provider may give (RAbort: none at all)
    toProcess,    \* the findings handed to the dispatch loop, index 0..n-1
    queue,        \* pLimit: the indices waiting for a slot (FIFO)
    activeCount,  \* pLimit: the slots in use
    pc,           \* per index: queued | cooldown | calling | inflight | backoff | done
    timer,        \* per index: milliseconds left of the sleep in progress, or of the
                  \* abort timer while a request is in flight
    elapsed,      \* per index: milliseconds since the limiter admitted it (saturating)
    resolved,     \* per index: the provider callLLM resolved, <<>> before it is entered
    apiKey,       \* per index: callLLM's apiKey (null is Unset)
    apiUrl,       \* per index: callLLM's apiUrl, <<>> before it is computed
    attempt,      \* per index: callLLM's loop counter, NotStarted before the loop
    maxTokens,    \* per index: callLLM's working max_tokens
    sent,         \* per index: the max_tokens of every request issued, in order
    log,          \* per index: every response received, in order
    sleeps,       \* per index: every delay callLLM slept, in order
    results,      \* per index: the Outcome (Promise.all's slot)
    finished,     \* the indices whose limiter task has settled, in completion order
    settled,      \* Promise.all: pending | fulfilled | rejected
    output,       \* what the dispatch returned
    fileContent,  \* llm-poc-generator.ts, the file the patch scripts rewrite: its lines, by number
    step,         \* the replace_in calls made so far, fix-poc-gen.py's first
    reported      \* what each replace_in call returned, in order

vars == <<env, phase, cfg, stub, toProcess, queue, activeCount, pc, timer, elapsed, resolved, apiKey, apiUrl,
          attempt, maxTokens, sent, log, sleeps, results, finished, settled, output,
          fileContent, step, reported>>

-----------------------------------------------------------------------------
(* Bounds of the model *)

NumItems == 3
MaxConcurrency == 2
MaxRetries == 2
MaxStrLen == 2
TickMs == 1000
MaxCopies == 2

(* Program constants *)

BackoffBaseMs == 3000
DownshiftSleepMs == 1000
EmptySleepMs == 1000
TokenFloor == 2048
DetailLimit == 300
DefaultMaxTokens == 4096
DefaultTimeoutMs == 120000
DefaultRetries == 2
DefaultConcurrency == 1
DefaultMaxPocs == 10
DefaultDelayMs == 2000

NotStarted == -1

-----------------------------------------------------------------------------
(* Strings *)

MarkerRateLimit == <<"r", "a", "t", "e", " ", "l", "i", "m", "i", "t">>
MarkerOverloaded == <<"o", "v", "e", "r", "l", "o", "a", "d", "e", "d">>
MarkerTryAgain == <<"t", "r", "y", " ", "a", "g", "a", "i", "n">>
MarkerTemporarily == <<"t", "e", "m", "p", "o", "r", "a", "r", "i", "l", "y">>
MarkerThrottl == <<"t", "h", "r", "o", "t", "t", "l">>
MarkerMaxTokens == <<"m", "a", "x", "_", "t", "o", "k", "e", "n", "s">>
MarkerContextLength == <<"c", "o", "n", "t", "e", "x", "t", " ", "l", "e", "n", "g", "t", "h">>
MarkerTooManyTokens == <<"t", "o", "o", " ", "m", "a", "n", "y", " ", "t", "o", "k", "e", "n", "s">>

BodyRateLimit == <<"R", "a", "t", "e", " ", "L", "i", "m", "i", "t", " ", "e", "x", "c", "e", "e", "d", "e", "d">>
BodyInvalidModel == <<"i", "n", "v", "a", "l", "i", "d", " ", "m", "o", "d", "e", "l">>
BodyContextLength == <<"m", "a", "x", "i", "m", "u", "m", " ", "c", "o", "n", "t", "e", "x", "t", " ", "l", "e", "n", "g", "t", "h", " ", "e", "x", "c", "e", "e", "d", "e", "d">>
BodyTokensTryAgain == <<"T", "o", "o", " ", "m", "a", "n", "y", " ", "t", "o", "k", "e", "n", "s", ",", " ", "t", "r", "y", " ", "a", "g", "a", "i", "n">>
BodyBusy == <<"b", "u", "s", "y">>
BodyNotFound == <<"n", "o", "t", " ", "f", "o", "u", "n", "d">>
ContentText == <<"i", "t", "(", "p", "o", "c", ")">>
ContentBlank == <<" ", "\t">>

NameKimiCode == <<"k", "i", "m", "i", "_", "c", "o", "d", "e">>
NameMoonshot == <<"m", "o", "o", "n", "s", "h", "o", "t">>
OverrideMoonshotUpper == <<"M", "O", "O", "N", "S", "H", "O", "T">>
OverrideKimiMixed == <<"K", "i", "m", "i", "_", "C", "o", "d", "e">>
OverrideAuto == <<"a", "u", "t", "o">>
OverrideOther == <<"o", "p", "e", "n", "a", "i">>
OverridePadded == <<" ", "m", "o", "o", "n", "s", "h", "o", "t">>
SecretKimi == <<"s", "k", "-", "k">>
SecretMoonshot == <<"s", "k", "-", "m">>
UrlKimiCode == <<"a", "p", "i", ".", "k", "i", "m", "i", ".", "c", "o", "m">>
UrlMoonshot == <<"a", "p", "i", ".", "m", "o", "o", "n", "s", "h", "o", "t", ".", "a", "i">>

Uppers == <<"A", "B", "C", "D", "E", "F", "G", "H", "I", "J", "K", "L", "M", "N", "O", "P", "Q", "R", "S", "T", "U", "V", "W", "X", "Y", "Z">>
Lowers == <<"a", "b", "c", "d", "e", "f", "g", "h", "i", "j", "k", "l", "m", "n", "o", "p", "q", "r", "s", "t", "u", "v", "w", "x", "y", "z">>
Digits == <<"0", "1", "2", "3", "4", "5", "6", "7", "8", "9">>
Whitespace == {" ", "\t", "\n"}

\* String.prototype.toLowerCase
ToLowerChar(c) ==
    IF \E k \in 1..Len(Uppers) : Uppers[k] = c
    THEN Lowers[CHOOSE k \in 1..Len(Uppers) : Uppers[k] = c]
    ELSE c

ToLowerCase(s) == [k \in 1..Len(s) |-> ToLowerChar(s[k])]

\* String.prototype.includes (str: the receiver, evaluated once)
Includes(s, t) ==
    \E str \in {s} :
        \E k \in 0..(Len(str) - Len(t)) : SubSeq(str, k + 1, k + Len(t)) = t

\* String.prototype.slice(0, n)
Slice(s, n) == IF Len(s) <= n THEN s ELSE SubSeq(s, 1, n)

\* String.prototype.trim
RECURSIVE TrimStart(_)
TrimStart(s) ==
    IF s # <<>> /\ Head(s) \in Whitespace THEN TrimStart(Tail(s)) ELSE s

RECURSIVE TrimEnd(_)
TrimEnd(s) ==
    IF s # <<>> /\ s[Len(s)] \in Whitespace
    THEN TrimEnd(SubSeq(s, 1, Len(s) - 1))
    ELSE s

Trim(s) == TrimEnd(TrimStart(s))

IsDigit(c) == \E k \in 1..Len(Digits) : Digits[k] = c
DigitValue(c) == (CHOOSE k \in 1..Len(Digits) : Digits[k] = c) - 1

Pow2(k) == 2 ^ k

Min(a, b) == IF a <= b THEN a ELSE b

-----------------------------------------------------------------------------
(* Environment values: unset, or a string *)

Unset == [set |-> FALSE, val |-> <<>>]
Str(s) == [set |-> TRUE, val |-> s]

\* JavaScript truthiness of process.env[key]: set and not the empty string
Truthy(v) == v.set /\ v.val # <<>>

\* parseInt(s, 10): leading whitespace skipped, an optional sign, then the
\* longest run of digits; NaN when there is no digit there.
RECURSIVE DigitRun(_)
DigitRun(s) ==
    IF s # <<>> /\ IsDigit(Head(s)) THEN <<Head(s)>> \o DigitRun(Tail(s)) ELSE <<>>

RECURSIVE DigitsValue(_)
DigitsValue(d) ==
    IF d = <<>> THEN 0
    ELSE 10 * DigitsValue(SubSeq(d, 1, Len(d) - 1)) + DigitValue(d[Len(d)])

NaN == [nan |-> TRUE, val |-> 0]
Num(n) == [nan |-> FALSE, val |-> n]

ParseInt(s) ==
    LET t == TrimStart(s)
        neg == t # <<>> /\ Head(t) = "-"
        signed == t # <<>> /\ Head(t) \in {"-", "+"}
        rest == IF signed THEN Tail(t) ELSE t
        run == DigitRun(rest)
    IN IF run = <<>> THEN NaN
       ELSE Num(IF neg THEN 0 - DigitsValue(run) ELSE DigitsValue(run))

\* Number.isFinite
IsFinite(n) == ~n.nan

\* The int() that safeInt replaced guarded only the unset value; NaN is read as 0
SafeIntNoGuard(e, key, fallback) ==
    LET v == e[key]
    IN IF Truthy(v) THEN ParseInt(v.val).val ELSE fallback

\* function safeInt(key, fallback)
SafeInt(e, key, fallback) ==
    LET v == e[key]
        n == IF Truthy(v) THEN ParseInt(v.val) ELSE NaN
    IN IF IsFinite(n) THEN n.val ELSE fallback

CfgKeys == {"LLM_POC_MAX_TOKENS", "LLM_POC_TIMEOUT_MS", "LLM_POC_RETRIES",
            "LLM_POC_CONCURRENCY", "LLM_POC_MAX", "LLM_POC_DELAY_MS"}

\* const POC_CFG = { ... }
PocCfg(e) ==
    [maxTokens |-> SafeInt(e, "LLM_POC_MAX_TOKENS", DefaultMaxTokens),
     timeoutMs |-> SafeInt(e, "LLM_POC_TIMEOUT_MS", DefaultTimeoutMs),
     retries |-> SafeInt(e, "LLM_POC_RETRIES", DefaultRetries),
     concurrency |-> SafeInt(e, "LLM_POC_CONCURRENCY", DefaultConcurrency),
     maxPocs |-> SafeInt(e, "LLM_POC_MAX", DefaultMaxPocs),
     interRequestDelayMs |-> SafeInt(e, "LLM_POC_DELAY_MS", DefaultDelayMs)]

NoCfg ==
    [maxTokens |-> 0, timeoutMs |-> 0, retries |-> 0, concurrency |-> 0,
     maxPocs |-> 0, interRequestDelayMs |-> 0]

-----------------------------------------------------------------------------
(* Provider resolver *)

\* The resolver before POC_PROVIDER existed: the Kimi Code key alone decides
ResolvePocProviderAutoOnly(e) ==
    IF Truthy(e.KIMI_CODE_API_KEY) THEN NameKimiCode ELSE NameMoonshot

\* function resolvePocProvider()
ResolvePocProvider(e) ==
    LET explicit == IF e.POC_PROVIDER.set THEN Str(ToLowerCase(e.POC_PROVIDER.val)) ELSE Unset
    IN IF explicit = Str(NameKimiCode) \/ explicit = Str(NameMoonshot)
       THEN explicit.val
       ELSE IF Truthy(e.KIMI_CODE_API_KEY) THEN NameKimiCode ELSE NameMoonshot

\* getPocApiUrl as fix-poc-gen.py wrote it: by the Kimi Code key alone
GetPocApiUrlByKey(e) ==
    IF Truthy(e.KIMI_CODE_API_KEY) THEN UrlKimiCode ELSE UrlMoonshot

\* function getPocApiUrl()
GetPocApiUrl(e) ==
    IF ResolvePocProvider(e) = NameKimiCode THEN UrlKimiCode ELSE UrlMoonshot

\* getPocApiKey as fix-poc-gen.py wrote it: either key, whatever the provider
GetPocApiKeyAnyKey(e) ==
    IF Truthy(e.KIMI_CODE_API_KEY) THEN e.KIMI_CODE_API_KEY
    ELSE IF Truthy(e.MOONSHOT_API_KEY) THEN e.MOONSHOT_API_KEY
    ELSE Unset

\* function getPocApiKey(): null is Unset
GetPocApiKey(e) ==
    LET provider == ResolvePocProvider(e)
    IN IF provider = NameKimiCode
       THEN (IF Truthy(e.KIMI_CODE_API_KEY) THEN e.KIMI_CODE_API_KEY ELSE Unset)
       ELSE (IF Truthy(e.MOONSHOT_API_KEY) THEN e.MOONSHOT_API_KEY ELSE Unset)

-----------------------------------------------------------------------------
(* Responses of the provider, as fetch hands them to callLLM *)

Response(status, body, content) == [status |-> status, body |-> body, content |-> content]

\* content is data.choices?.[0]?.message?.content, Unset when the payload has none
R429 == Response(429, BodyBusy, Unset)
R500 == Response(500, BodyBusy, Unset)
R400Transient == Response(400, BodyRateLimit, Unset)
R400Token == Response(400, BodyContextLength, Unset)
R400Both == Response(400, BodyTokensTryAgain, Unset)
R400Plain == Response(400, BodyInvalidModel, Unset)
R404 == Response(404, BodyNotFound, Unset)
R200Text == Response(200, <<>>, Str(ContentText))
R200Blank == Response(200, <<>>, Str(ContentBlank))
R200Missing == Response(200, <<>>, Unset)
\* fetch rejected: the abort timer fired on a request left unanswered (RAbort),
\* or the transport failed (RNetDown).  Neither has a status.
RAbort == Response(0, <<"a", "b", "o", "r", "t">>, Unset)
RNetDown == Response(0, <<"r", "e", "s", "e", "t">>, Unset)

AllResponses ==
    {R429, R500, R400Transient, R400Token, R400Both, R400Plain, R404,
     R200Text, R200Blank, R200Missing, RAbort, RNetDown}

\* Answers whose body is one character longer than an error message may quote
BodyLong == [k \in 1..(DetailLimit + 1) |-> "x"]

R429Long == Response(429, BodyLong, Unset)
R400Long == Response(400, BodyLong, Unset)
R404Long == Response(404, BodyLong, Unset)

LongResponses == {R429Long, R400Long, R404Long}

\* Every status below 500 taken for a success
OkBelow500(res) == res.status >= 200 /\ res.status <= 499

\* res.ok
Ok(res) == res.status >= 200 /\ res.status <= 299

-----------------------------------------------------------------------------
(* callLLM: what one pass of the attempt loop does with a response *)

TransientMarkers ==
    {MarkerRateLimit, MarkerOverloaded, MarkerTryAgain, MarkerTemporarily, MarkerThrottl}

TokenLimitMarkers == {MarkerMaxTokens, MarkerContextLength, MarkerTooManyTokens}

NoError == [kind |-> "none", status |-> 0, detail |-> <<>>]
Err(kind, status, detail) == [kind |-> kind, status |-> status, detail |-> detail]

\* What callLLM does next
Sleep(delay, tokens) ==
    [next |-> "sleep", delay |-> delay, maxTokens |-> tokens, content |-> <<>>, error |-> NoError]
Return(content) ==
    [next |-> "return", delay |-> 0, maxTokens |-> 0, content |-> content, error |-> NoError]
\* A failure handed back as an empty text instead of thrown
ThrowSwallowed(error) == Return(<<>>)

Throw(error) ==
    [next |-> "throw", delay |-> 0, maxTokens |-> 0, content |-> <<>>, error |-> error]

\* const delay = 3000 * Math.pow(2, attempt)
BackoffDelay(a) == BackoffBaseMs * Pow2(a)

\* The body matched as it came
LowerOfIdentity(body) == body

\* const lower = body.toLowerCase()
LowerOf(body) == ToLowerCase(body)

\* transient.some((t) => lower.includes(t))
IsTransient(lower) == \E t \in TransientMarkers : Includes(lower, t)

\* lower.includes("max_tokens") || lower.includes("context length") || ...
IsTokenLimit(lower) == \E t \in TokenLimitMarkers : Includes(lower, t)

\* The condition fix-poc-gen.py wrote: 400 retried like a 429
IsRetryableStatusWith400(status) == status = 429 \/ status >= 500 \/ status = 400

\* if (res.status === 429 || res.status >= 500)
IsRetryableStatus(status) == status = 429 \/ status >= 500

\* One attempt short
AttemptsRemainOffByOne(a, retries) == a + 1 < retries

\* attempt < POC_CFG.retries
AttemptsRemain(a, retries) == a < retries

\* max_tokens left as it was
DownshiftNone(tokens) == tokens

\* maxTokens = Math.floor(maxTokens / 2)
Downshift(tokens) == tokens \div 2

\* if (res.status === 429 || res.status >= 500) { ... }
OnRetryableStatus(res, a, tokens, retries) ==
    IF AttemptsRemain(a, retries)
    THEN Sleep(BackoffDelay(a), tokens)
    ELSE Throw(Err("status", res.status, Slice(res.body, DetailLimit)))

\* The token-limit retry taken whether or not attempts remain
On400DownshiftOwnBudget(res, a, tokens, retries) ==
    LET lower == LowerOf(res.body)
    IN IF IsTransient(lower) /\ AttemptsRemain(a, retries)
       THEN Sleep(BackoffDelay(a), tokens)
       ELSE IF IsTokenLimit(lower) /\ tokens > TokenFloor
       THEN Sleep(DownshiftSleepMs, Downshift(tokens))
       ELSE Throw(Err("deterministic", 400, Slice(res.body, DetailLimit)))

\* if (res.status === 400) { ... }
On400(res, a, tokens, retries) ==
    LET lower == LowerOf(res.body)
    IN IF IsTransient(lower) /\ AttemptsRemain(a, retries)
       THEN Sleep(BackoffDelay(a), tokens)
       ELSE IF IsTokenLimit(lower) /\ AttemptsRemain(a, retries) /\ tokens > TokenFloor
       THEN Sleep(DownshiftSleepMs, Downshift(tokens))
       ELSE Throw(Err("deterministic", 400, Slice(res.body, DetailLimit)))

\* An empty text retried on the backoff schedule of a 429
OnOkWithBackoff(res, a, tokens, retries) ==
    IF ~Truthy(res.content) \/ Len(Trim(res.content.val)) = 0
    THEN IF AttemptsRemain(a, retries)
         THEN Sleep(BackoffDelay(a), tokens)
         ELSE Throw(Err("empty", res.status, <<>>))
    ELSE Return(res.content.val)

\* const content = ...; if (!content || content.trim().length === 0) { ... }
OnOk(res, a, tokens, retries) ==
    IF ~Truthy(res.content) \/ Len(Trim(res.content.val)) = 0
    THEN IF AttemptsRemain(a, retries)
         THEN Sleep(EmptySleepMs, tokens)
         ELSE Throw(Err("empty", res.status, <<>>))
    ELSE Return(res.content.val)

\* The body of the try block from the fetch on; a rejected fetch throws
TryBody(res, a, tokens, retries) ==
    IF res \in {RAbort, RNetDown} THEN Throw(Err("transport", 0, <<>>))
    ELSE IF IsRetryableStatus(res.status) THEN OnRetryableStatus(res, a, tokens, retries)
    ELSE IF res.status = 400 THEN On400(res, a, tokens, retries)
    ELSE IF ~Ok(res) THEN Throw(Err("http", res.status, res.body))
    ELSE OnOk(res, a, tokens, retries)

\* The catch block of the try is not among the patched lines.  A rejected
\* fetch (the abort timer, a transport failure) is retried like a 5xx; an
\* error the try block threw itself leaves callLLM.
CatchBlock(h, a, tokens, retries) ==
    IF h.next = "throw" /\ h.error.kind = "transport" /\ AttemptsRemain(a, retries)
    THEN Sleep(BackoffDelay(a), tokens)
    ELSE h

\* One pass of the attempt loop from the fetch on
HandleResponse(res, a, tokens, retries) ==
    CatchBlock(TryBody(res, a, tokens, retries), a, tokens, retries)

-----------------------------------------------------------------------------
(* Findings and Outcomes *)

\* A template literal's ${n} for a number n >= 0
RECURSIVE DecimalOf(_)
DecimalOf(n) ==
    IF n < 10 THEN <<Digits[n + 1]>>
    ELSE DecimalOf(n \div 10) \o <<Digits[(n % 10) + 1]>>

TitleSigner == <<"M", "i", "s", "s", "i", "n", "g", " ", "s", "i", "g", "n", "e", "r">>
TitleOwner == <<"O", "w", "n", "e", "r", " ", "u", "n", "c", "h", "e", "c", "k", "e", "d">>
ClassNameSigner == <<"m", "i", "s", "s", "i", "n", "g", "_", "s", "i", "g", "n", "e", "r">>

GrepPrefix == <<"a", "n", "c", "h", "o", "r", " ", "t", "e", "s", "t", " ", "-", "-", " ", "-", "-", "g", "r", "e", "p", " ", "\"">>
DescribePrefix == <<"d", "e", "s", "c", "r", "i", "b", "e", "(", "\"">>
PoCMark == <<"P", "o", "C", "#">>
TitleLimit == 60

MakeFinding(classId, className, title) ==
    [classId |-> classId, className |-> className, title |-> title]

Finding(idx) == MakeFinding(40 + idx, ClassNameSigner, TitleSigner \o DecimalOf(idx))
NoFinding == MakeFinding(0, <<>>, <<>>)

\* The run command as it was: the test is selected by the finding's title
RunCommandByTitle(finding) ==
    GrepPrefix \o Slice(finding.title, TitleLimit) \o <<"\"">>

\* runCommand of an Anchor program: anchor test -- --grep "PoC#${finding.classId}"
RunCommand(finding) ==
    GrepPrefix \o PoCMark \o DecimalOf(finding.classId) \o <<"\"">>

\* The fallback scaffold's header: describe("PoC#${finding.classId}: ${finding.className}
FallbackDescribe(finding) ==
    DescribePrefix \o PoCMark \o DecimalOf(finding.classId) \o <<":", " ">> \o finding.className

Outcome(status, finding, text, error) ==
    [status |-> status, finding |-> finding, text |-> text, error |-> error,
     runCommand |-> IF status = "none" THEN <<>> ELSE RunCommand(finding),
     scaffold |-> IF status = "failed" THEN FallbackDescribe(finding) ELSE <<>>]
NoOutcome == Outcome("none", NoFinding, <<>>, NoError)

\* generateSinglePoC is not among the patched lines.  It returns a structure in
\* every case: the generated text, or the fallback scaffold with the error, and
\* the caller tells them apart by the status field.  Both carry the run command;
\* the programs modelled are Anchor programs.
GenerateSinglePoC(finding, r) ==
    IF r.next = "return"
    THEN [kind |-> "return", value |-> Outcome("generated", finding, r.content, NoError)]
    ELSE [kind |-> "return", value |-> Outcome("failed", finding, <<>>, r.error)]

-----------------------------------------------------------------------------
(* The dispatch loop: pLimit and Promise.all *)

Idx == DOMAIN toProcess

\* The cooldown skipped for the second item too
NeedsCooldownAfterSecond(idx) == idx > 1

\* if (idx > 0) await sleep(POC_CFG.interRequestDelayMs)
NeedsCooldown(idx) == idx > 0

\* One task too many
CanAdmitOneMore(active, concurrency) == active <= concurrency

\* pLimit: a task starts at once while activeCount < concurrency
CanAdmit(active, concurrency) == active < concurrency

RECURSIVE AdmitCount(_, _, _)
AdmitCount(k, n, concurrency) ==
    IF k < n /\ CanAdmit(k, concurrency) THEN AdmitCount(k + 1, n, concurrency) ELSE k

\* Results collected in completion order
ResultSlotCompletionOrder(idx, done) == done

\* Promise.all(toProcess.map((finding, idx) => ...)): the value of the idx-th
\* promise is the idx-th element of the result, whenever it settles
ResultSlot(idx, done) == idx

\* A cooldown of no length
TimerAdmittedAtOnce(idx) == 0

\* The state of a task the limiter has just started
PcAdmitted(idx) == IF NeedsCooldown(idx) THEN "cooldown" ELSE "calling"
TimerAdmitted(idx) == IF NeedsCooldown(idx) THEN cfg.interRequestDelayMs ELSE 0

Active == {i \in Idx : pc[i] \in {"cooldown", "calling", "inflight", "backoff"}}

-----------------------------------------------------------------------------
(* The patch scripts.  A text is the sequence of its lines; a pattern that  *)
(* the scripts look for inside a line stands as a line of its own.  TLA+    *)
(* strings cannot hold the backquote, the box-drawing dash and the em dash: *)
(* they are written ^, ~ and %, which occur nowhere in the texts.           *)

\* fix-poc-gen.py, "1. Replace config section": replace_in(F, old, new)
GenConfig ==
    [old |->
        <<"// ~~~ Config ~~~~~~~~~~~~~~~~~~~~~~~~~~~~~~~~~~~~~~~~~~~~~~~~~",
          "",
          "const MOONSHOT_API_URL = \"https://api.moonshot.ai/v1/chat/completions\";",
          "const MOONSHOT_MODEL = process.env.MOONSHOT_MODEL || \"kimi-k2.5\";",
          "",
          "const POC_CFG = {",
          "  maxTokens: int(\"LLM_POC_MAX_TOKENS\", 8192),",
          "  timeoutMs: int(\"LLM_POC_TIMEOUT_MS\", 120_000),",
          "  retries: int(\"LLM_POC_RETRIES\", 2),",
          "  concurrency: int(\"LLM_POC_CONCURRENCY\", 3),",
          "  maxPocs: int(\"LLM_POC_MAX\", 10),",
          "};",
          "",
          "function int(key: string, fallback: number): number {",
          "  const v = process.env[key];",
          "  return v ? parseInt(v, 10) : fallback;",
          "}",
          "",
          "function getApiKey(): string | null {",
          "  return process.env.MOONSHOT_API_KEY || null;",
          "}">>,
     new |->
        <<"// ~~~ Config ~~~~~~~~~~~~~~~~~~~~~~~~~~~~~~~~~~~~~~~~~~~~~~~~~",
          "",
          "// Prefer Kimi Code API (separate rate-limit pool from analyzer's Moonshot).",
          "// Falls back to Moonshot if KIMI_CODE_API_KEY is not set.",
          "",
          "function getPocApiUrl(): string {",
          "  if (process.env.KIMI_CODE_API_KEY) {",
          "    return \"https://api.kimi.com/coding/v1/chat/completions\";",
          "  }",
          "  return \"https://api.moonshot.ai/v1/chat/completions\";",
          "}",
          "",
          "function getPocApiKey(): string | null {",
          "  return process.env.KIMI_CODE_API_KEY || process.env.MOONSHOT_API_KEY || null;",
          "}",
          "",
          "function getPocModel(): string {",
          "  return process.env.KIMI_PATCH_MODEL || process.env.MOONSHOT_MODEL || \"kimi-k2.5\";",
          "}",
          "",
          "const POC_CFG = {",
          "  maxTokens: int(\"LLM_POC_MAX_TOKENS\", 8192),",
          "  timeoutMs: int(\"LLM_POC_TIMEOUT_MS\", 120_000),",
          "  retries: int(\"LLM_POC_RETRIES\", 2),",
          "  concurrency: int(\"LLM_POC_CONCURRENCY\", 1), // sequential: avoids rate-limit storms",
          "  maxPocs: int(\"LLM_POC_MAX\", 10),",
          "  interRequestDelayMs: int(\"LLM_POC_DELAY_MS\", 2000), // cooldown between calls",
          "};",
          "",
          "function int(key: string, fallback: number): number {",
          "  const v = process.env[key];",
          "  return v ? parseInt(v, 10) : fallback;",
          "}">>]

\* fix-poc-gen.py, "2. Replace callLLM function": replace_in(F, old, new)
GenCallLLM ==
    [old |->
        <<"async function callLLM(system: string, user: string): Promise<string> {",
          "  const apiKey = getApiKey();",
          "  if (!apiKey) throw new Error(\"MOONSHOT_API_KEY not set\");",
          "",
          "  for (let attempt = 0; attempt <= POC_CFG.retries; attempt++) {",
          "    const controller = new AbortController();",
          "    const timer = setTimeout(() => controller.abort(), POC_CFG.timeoutMs);",
          "",
          "    try {",
          "      const res = await fetch(MOONSHOT_API_URL, {",
          "        method: \"POST\",",
          "        headers: {",
          "          \"Content-Type\": \"application/json\",",
          "          Authorization: ^Bearer ${apiKey}^,",
          "        },",
          "        body: JSON.stringify({",
          "          model: MOONSHOT_MODEL,",
          "          max_tokens: POC_CFG.maxTokens,",
          "          temperature: 1,",
          "          messages: [",
          "            { role: \"system\", content: system },",
          "            { role: \"user\", content: user },",
          "          ],",
          "        }),",
          "        signal: controller.signal,",
          "      });",
          "",
          "      clearTimeout(timer);",
          "",
          "      if (res.status === 429 || res.status >= 500) {",
          "        const delay = 1500 * Math.pow(2, attempt);",
          "        console.warn(^[poc-gen] ${res.status}, retry in ${delay}ms^);",
          "        await sleep(delay);",
          "        continue;",
          "      }",
          "",
          "      if (!res.ok) {",
          "        const body = await res.text();",
          "        throw new Error(^Moonshot ${res.status}: ${body}^);",
          "      }",
          "",
          "      const data = await res.json();",
          "      const content = data.choices?.[0]?.message?.content;",
          "      if (!content || content.trim().length === 0) {",
          "        if (attempt < POC_CFG.retries) {",
          "          await sleep(1000);",
          "          continue;",
          "        }",
          "        throw new Error(\"Empty response after retries\");",
          "      }",
          "      return content;">>,
     new |->
        <<"async function callLLM(system: string, user: string): Promise<string> {",
          "  const apiKey = getPocApiKey();",
          "  if (!apiKey) throw new Error(\"KIMI_CODE_API_KEY or MOONSHOT_API_KEY not set\");",
          "",
          "  const apiUrl = getPocApiUrl();",
          "  const model = getPocModel();",
          "  const apiName = process.env.KIMI_CODE_API_KEY ? \"Kimi Code\" : \"Moonshot\";",
          "",
          "  for (let attempt = 0; attempt <= POC_CFG.retries; attempt++) {",
          "    const controller = new AbortController();",
          "    const timer = setTimeout(() => controller.abort(), POC_CFG.timeoutMs);",
          "",
          "    try {",
          "      const res = await fetch(apiUrl, {",
          "        method: \"POST\",",
          "        headers: {",
          "          \"Content-Type\": \"application/json\",",
          "          Authorization: ^Bearer ${apiKey}^,",
          "        },",
          "        body: JSON.stringify({",
          "          model,",
          "          max_tokens: POC_CFG.maxTokens,",
          "          temperature: 1,",
          "          messages: [",
          "            { role: \"system\", content: system },",
          "            { role: \"user\", content: user },",
          "          ],",
          "        }),",
          "        signal: controller.signal,",
          "      });",
          "",
          "      clearTimeout(timer);",
          "",
          "      // Retry on 429, 5xx, AND 400 (Moonshot sends 400 for rate-limits",
          "      // with misleading \"invalid temperature\" errors)",
          "      if (res.status === 429 || res.status >= 500 || res.status === 400) {",
          "        const body = await res.text().catch(() => \"\");",
          "        const delay = 3000 * Math.pow(2, attempt);",
          "        console.warn(^[poc-gen] ${apiName} ${res.status}, retry ${attempt + 1}/${POC_CFG.retries + 1} in ${delay}ms^);",
          "        if (attempt < POC_CFG.retries) {",
          "          await sleep(delay);",
          "          continue;",
          "        }",
          "        throw new Error(^${apiName} ${res.status}: ${body.slice(0, 300)}^);",
          "      }",
          "",
          "      if (!res.ok) {",
          "        const body = await res.text();",
          "        throw new Error(^${apiName} ${res.status}: ${body}^);",
          "      }",
          "",
          "      const data = await res.json();",
          "      const content = data.choices?.[0]?.message?.content;",
          "      if (!content || content.trim().length === 0) {",
          "        if (attempt < POC_CFG.retries) {",
          "          await sleep(1000);",
          "          continue;",
          "        }",
          "        throw new Error(\"Empty response after retries\");",
          "      }",
          "      return content;">>]

\* fix-poc-gen.py, "3. Fix getApiKey reference in main function": replace_in(F, old, new)
GenApiKeyRef ==
    [old |->
        <<"  const apiKey = getApiKey();">>,
     new |->
        <<"  const apiKey = getPocApiKey();">>]

\* fix-poc-gen.py, "4. Add inter-request delay to dispatch loop": replace_in(F, old, new)
GenDispatch ==
    [old |->
        <<"  // LLM-powered generation with concurrency limit",
          "  const limit = pLimit(POC_CFG.concurrency);",
          "",
          "  const results = await Promise.all(",
          "    toProcess.map((finding) =>",
          "      limit(async () => {",
          "        const enriched = enrichedFindings?.find(",
          "          (e) => e.title === finding.title || e.title.includes(finding.className)",
          "        );",
          "        const patch = patches?.find((p) => p.file === finding.location.file);",
          "        return generateSinglePoC(finding, program, enriched, patch);",
          "      })",
          "    )",
          "  );">>,
     new |->
        <<"  // LLM-powered generation % sequential with cooldown to avoid rate-limits",
          "  const usingApi = process.env.KIMI_CODE_API_KEY ? \"Kimi Code\" : \"Moonshot\";",
          "  console.log(^[poc-gen] Generating via ${usingApi} API (concurrency: ${POC_CFG.concurrency}, delay: ${POC_CFG.interRequestDelayMs}ms)^);",
          "  const limit = pLimit(POC_CFG.concurrency);",
          "",
          "  const results = await Promise.all(",
          "    toProcess.map((finding, idx) =>",
          "      limit(async () => {",
          "        // Inter-request cooldown to avoid rate-limit storms",
          "        if (idx > 0) await sleep(POC_CFG.interRequestDelayMs);",
          "        const enriched = enrichedFindings?.find(",
          "          (e) => e.title === finding.title || e.title.includes(finding.className)",
          "        );",
          "        const patch = patches?.find((p) => p.file === finding.location.file);",
          "        return generateSinglePoC(finding, program, enriched, patch);",
          "      })",
          "    )",
          "  );">>]

\* fix-poc-review.py, "1. Config": replace_in(F, old, new)
ReviewConfig ==
    [old |->
        <<"// ~~~ Config ~~~~~~~~~~~~~~~~~~~~~~~~~~~~~~~~~~~~~~~~~~~~~~~~~",
          "",
          "// Prefer Kimi Code API (separate rate-limit pool from analyzer's Moonshot).",
          "// Falls back to Moonshot if KIMI_CODE_API_KEY is not set.",
          "",
          "function getPocApiUrl(): string {",
          "  if (process.env.KIMI_CODE_API_KEY) {",
          "    return \"https://api.kimi.com/coding/v1/chat/completions\";",
          "  }",
          "  return \"https://api.moonshot.ai/v1/chat/completions\";",
          "}",
          "",
          "function getPocApiKey(): string | null {",
          "  return process.env.KIMI_CODE_API_KEY || process.env.MOONSHOT_API_KEY || null;",
          "}",
          "",
          "function getPocModel(): string {",
          "  return process.env.KIMI_PATCH_MODEL || process.env.MOONSHOT_MODEL || \"kimi-k2.5\";",
          "}",
          "",
          "const POC_CFG = {",
          "  maxTokens: int(\"LLM_POC_MAX_TOKENS\", 8192),",
          "  timeoutMs: int(\"LLM_POC_TIMEOUT_MS\", 120_000),",
          "  retries: int(\"LLM_POC_RETRIES\", 2),",
          "  concurrency: int(\"LLM_POC_CONCURRENCY\", 1), // sequential: avoids rate-limit storms",
          "  maxPocs: int(\"LLM_POC_MAX\", 10),",
          "  interRequestDelayMs: int(\"LLM_POC_DELAY_MS\", 2000), // cooldown between calls",
          "};",
          "",
          "function int(key: string, fallback: number): number {",
          "  const v = process.env[key];",
          "  return v ? parseInt(v, 10) : fallback;",
          "}">>,
     new |->
        <<"// ~~~ Config ~~~~~~~~~~~~~~~~~~~~~~~~~~~~~~~~~~~~~~~~~~~~~~~~~",
          "",
          "// Provider selection: POC_PROVIDER=auto|kimi_code|moonshot",
          "// \"auto\" (default): prefers Kimi Code if KIMI_CODE_API_KEY is set, else Moonshot.",
          "",
          "type PocProvider = \"kimi_code\" | \"moonshot\";",
          "",
          "function resolvePocProvider(): PocProvider {",
          "  const explicit = process.env.POC_PROVIDER?.toLowerCase();",
          "  if (explicit === \"kimi_code\" || explicit === \"moonshot\") return explicit;",
          "  // auto: prefer Kimi Code (separate rate-limit pool from analyzer's Moonshot)",
          "  return process.env.KIMI_CODE_API_KEY ? \"kimi_code\" : \"moonshot\";",
          "}",
          "",
          "function getPocApiUrl(): string {",
          "  return resolvePocProvider() === \"kimi_code\"",
          "    ? \"https://api.kimi.com/coding/v1/chat/completions\"",
          "    : \"https://api.moonshot.ai/v1/chat/completions\";",
          "}",
          "",
          "function getPocApiKey(): string | null {",
          "  const provider = resolvePocProvider();",
          "  if (provider === \"kimi_code\") return process.env.KIMI_CODE_API_KEY || null;",
          "  return process.env.MOONSHOT_API_KEY || null;",
          "}",
          "",
          "function getPocModel(): string {",
          "  return process.env.LLM_POC_MODEL || process.env.MOONSHOT_MODEL || \"kimi-k2.5\";",
          "}",
          "",
          "const POC_CFG = {",
          "  maxTokens: safeInt(\"LLM_POC_MAX_TOKENS\", 4096),",
          "  timeoutMs: safeInt(\"LLM_POC_TIMEOUT_MS\", 120_000),",
          "  retries: safeInt(\"LLM_POC_RETRIES\", 2),",
          "  concurrency: safeInt(\"LLM_POC_CONCURRENCY\", 1), // sequential: avoids rate-limit storms",
          "  maxPocs: safeInt(\"LLM_POC_MAX\", 10),",
          "  interRequestDelayMs: safeInt(\"LLM_POC_DELAY_MS\", 2000), // cooldown between calls",
          "};",
          "",
          "function safeInt(key: string, fallback: number): number {",
          "  const v = process.env[key];",
          "  const n = v ? parseInt(v, 10) : NaN;",
          "  return Number.isFinite(n) ? n : fallback;",
          "}">>]

\* fix-poc-review.py, "2. callLLM": replace_in(F, old, new)
ReviewCallLLM ==
    [old |->
        <<"async function callLLM(system: string, user: string): Promise<string> {",
          "  const apiKey = getPocApiKey();",
          "  if (!apiKey) throw new Error(\"KIMI_CODE_API_KEY or MOONSHOT_API_KEY not set\");",
          "",
          "  const apiUrl = getPocApiUrl();",
          "  const model = getPocModel();",
          "  const apiName = process.env.KIMI_CODE_API_KEY ? \"Kimi Code\" : \"Moonshot\";",
          "",
          "  for (let attempt = 0; attempt <= POC_CFG.retries; attempt++) {",
          "    const controller = new AbortController();",
          "    const timer = setTimeout(() => controller.abort(), POC_CFG.timeoutMs);",
          "",
          "    try {",
          "      const res = await fetch(apiUrl, {",
          "        method: \"POST\",",
          "        headers: {",
          "          \"Content-Type\": \"application/json\",",
          "          Authorization: ^Bearer ${apiKey}^,",
          "        },",
          "        body: JSON.stringify({",
          "          model,",
          "          max_tokens: POC_CFG.maxTokens,",
          "          temperature: 1,",
          "          messages: [",
          "            { role: \"system\", content: system },",
          "            { role: \"user\", content: user },",
          "          ],",
          "        }),",
          "        signal: controller.signal,",
          "      });",
          "",
          "      clearTimeout(timer);",
          "",
          "      // Retry on 429, 5xx, AND 400 (Moonshot sends 400 for rate-limits",
          "      // with misleading \"invalid temperature\" errors)",
          "      if (res.status === 429 || res.status >= 500 || res.status === 400) {",
          "        const body = await res.text().catch(() => \"\");",
          "        const delay = 3000 * Math.pow(2, attempt);",
          "        console.warn(^[poc-gen] ${apiName} ${res.status}, retry ${attempt + 1}/${POC_CFG.retries + 1} in ${delay}ms^);",
          "        if (attempt < POC_CFG.retries) {",
          "          await sleep(delay);",
          "          continue;",
          "        }",
          "        throw new Error(^${apiName} ${res.status}: ${body.slice(0, 300)}^);",
          "      }",
          "",
          "      if (!res.ok) {",
          "        const body = await res.text();",
          "        throw new Error(^${apiName} ${res.status}: ${body}^);",
          "      }",
          "",
          "      const data = await res.json();",
          "      const content = data.choices?.[0]?.message?.content;",
          "      if (!content || content.trim().length === 0) {",
          "        if (attempt < POC_CFG.retries) {",
          "          await sleep(1000);",
          "          continue;",
          "        }",
          "        throw new Error(\"Empty response after retries\");",
          "      }",
          "      return content;">>,
     new |->
        <<"async function callLLM(system: string, user: string): Promise<string> {",
          "  const apiKey = getPocApiKey();",
          "  const provider = resolvePocProvider();",
          "  const apiName = provider === \"kimi_code\" ? \"Kimi Code\" : \"Moonshot\";",
          "  if (!apiKey) throw new Error(^${apiName} API key not set (POC_PROVIDER=${provider})^);",
          "",
          "  const apiUrl = getPocApiUrl();",
          "  const model = getPocModel();",
          "  let maxTokens = POC_CFG.maxTokens;",
          "",
          "  for (let attempt = 0; attempt <= POC_CFG.retries; attempt++) {",
          "    const controller = new AbortController();",
          "    const timer = setTimeout(() => controller.abort(), POC_CFG.timeoutMs);",
          "",
          "    try {",
          "      const res = await fetch(apiUrl, {",
          "        method: \"POST\",",
          "        headers: {",
          "          \"Content-Type\": \"application/json\",",
          "          Authorization: ^Bearer ${apiKey}^,",
          "        },",
          "        body: JSON.stringify({",
          "          model,",
          "          max_tokens: maxTokens,",
          "          temperature: 1,",
          "          messages: [",
          "            { role: \"system\", content: system },",
          "            { role: \"user\", content: user },",
          "          ],",
          "        }),",
          "        signal: controller.signal,",
          "      });",
          "",
          "      clearTimeout(timer);",
          "",
          "      // ~~ Retryable: 429 (rate-limit) and 5xx (server error) ~~",
          "      if (res.status === 429 || res.status >= 500) {",
          "        const delay = 3000 * Math.pow(2, attempt);",
          "        console.warn(^[poc-gen] ${apiName} ${res.status}, retry ${attempt + 1}/${POC_CFG.retries + 1} in ${delay}ms^);",
          "        if (attempt < POC_CFG.retries) {",
          "          await sleep(delay);",
          "          continue;",
          "        }",
          "        const body = await res.text().catch(() => \"\");",
          "        throw new Error(^${apiName} ${res.status}: ${body.slice(0, 300)}^);",
          "      }",
          "",
          "      // ~~ 400: only retry if transient; fail fast otherwise ~~",
          "      if (res.status === 400) {",
          "        const body = await res.text().catch(() => \"\");",
          "        const lower = body.toLowerCase();",
          "",
          "        // Transient signals (some providers send 400 for rate-limits)",
          "        const transient = [\"rate limit\", \"overloaded\", \"try again\", \"temporarily\", \"throttl\"];",
          "        if (transient.some((t) => lower.includes(t)) && attempt < POC_CFG.retries) {",
          "          const delay = 3000 * Math.pow(2, attempt);",
          "          console.warn(^[poc-gen] ${apiName} 400 (transient), retry ${attempt + 1}/${POC_CFG.retries + 1} in ${delay}ms^);",
          "          await sleep(delay);",
          "          continue;",
          "        }",
          "",
          "        // Token-limit error: downshift max_tokens and retry once",
          "        if ((lower.includes(\"max_tokens\") || lower.includes(\"context length\") || lower.includes(\"too many tokens\"))",
          "            && attempt < POC_CFG.retries && maxTokens > 2048) {",
          "          maxTokens = Math.floor(maxTokens / 2);",
          "          console.warn(^[poc-gen] ${apiName} 400 (token limit), downshifting max_tokens to ${maxTokens}^);",
          "          await sleep(1000);",
          "          continue;",
          "        }",
          "",
          "        // Deterministic error: fail fast (invalid model, bad params, etc.)",
          "        throw new Error(^${apiName} 400 (deterministic): ${body.slice(0, 300)}^);",
          "      }",
          "",
          "      if (!res.ok) {",
          "        const body = await res.text();",
          "        throw new Error(^${apiName} ${res.status}: ${body}^);",
          "      }",
          "",
          "      const data = await res.json();",
          "      const content = data.choices?.[0]?.message?.content;",
          "      if (!content || content.trim().length === 0) {",
          "        if (attempt < POC_CFG.retries) {",
          "          await sleep(1000);",
          "          continue;",
          "        }",
          "        throw new Error(\"Empty response after retries\");",
          "      }",
          "      return content;">>]

\* fix-poc-review.py, "3. runCommand grep": replace_in(F, old, new)
ReviewRunCommand ==
    [old |->
        <<"runCommand: isAnchor",
          "          ? ^cd <repo> && anchor test -- --grep \"${finding.title.slice(0, 60)}\"^",
          "          : ^cd <repo> && cargo test-sbf poc_${finding.classId}_${safeName}^,">>,
     new |->
        <<"runCommand: isAnchor",
          "          ? ^cd <repo> && anchor test -- --grep \"PoC#${finding.classId}\"^",
          "          : ^cd <repo> && cargo test-sbf poc_${finding.classId}_${safeName}^,">>]

\* fix-poc-review.py, "4. System prompt": replace_in(F, old, new)
ReviewPrompt ==
    [old |->
        <<"Rules for the test code:",
          "- Write a COMPLETE, RUNNABLE Anchor test file (.ts)",
          "- Import from @coral-xyz/anchor and @solana/web3.js",
          "- Use describe/it blocks with Mocha",
          "- Create realistic account setup (PDAs, token accounts, keypairs)",
          "- Show the EXACT exploit path: what the attacker does, which accounts are passed",
          "- The test should SUCCEED if the vulnerability exists (proving it's exploitable)",
          "- Include comments explaining each step of the exploit">>,
     new |->
        <<"Rules for the test code:",
          "- Write a COMPLETE, RUNNABLE Anchor test file (.ts)",
          "- Import from @coral-xyz/anchor and @solana/web3.js",
          "- Use describe/it blocks with Mocha",
          "- The describe block MUST start with \"PoC#\" followed by the class ID, e.g. describe(\"PoC#42: missing_signer\", ...)",
          "- Create realistic account setup (PDAs, token accounts, keypairs)",
          "- Show the EXACT exploit path: what the attacker does, which accounts are passed",
          "- The test should SUCCEED if the vulnerability exists (proving it's exploitable)",
          "- Include comments explaining each step of the exploit">>]

\* fix-poc-review.py, "5. Fallback describe": replace_in(F, old, new)
ReviewDescribe ==
    [old |->
        <<"describe(\"PoC: ${finding.className}">>,
     new |->
        <<"describe(\"PoC#${finding.classId}: ${finding.className}">>]

\* fix-poc-review.py, "6. Dispatch loop": replace_in(F, old, new)
ReviewDispatch ==
    [old |->
        <<"  // LLM-powered generation % sequential with cooldown to avoid rate-limits",
          "  const usingApi = process.env.KIMI_CODE_API_KEY ? \"Kimi Code\" : \"Moonshot\";",
          "  console.log(^[poc-gen] Generating via ${usingApi} API (concurrency: ${POC_CFG.concurrency}, delay: ${POC_CFG.interRequestDelayMs}ms)^);",
          "  const limit = pLimit(POC_CFG.concurrency);">>,
     new |->
        <<"  // LLM-powered generation % sequential with cooldown to avoid rate-limits",
          "  const provider = resolvePocProvider();",
          "  const providerLabel = provider === \"kimi_code\" ? \"Kimi Code\" : \"Moonshot\";",
          "  console.log(^[poc-gen] Generating via ${providerLabel} API (model: ${getPocModel()}, concurrency: ${POC_CFG.concurrency}, delay: ${POC_CFG.interRequestDelayMs}ms)^);",
          "  const limit = pLimit(POC_CFG.concurrency);">>]

\* The replace_in calls in the order the two scripts make them
Calls ==
    <<GenConfig, GenCallLLM, GenApiKeyRef, GenDispatch,
      ReviewConfig, ReviewCallLLM, ReviewRunCommand, ReviewPrompt, ReviewDescribe,
      ReviewDispatch>>

GenCalls == 4

\* The file is held as line numbers: a line's number is the place of its first
\* occurrence in the scripts' texts laid end to end, so two lines have the same
\* number exactly when they are the same text
AllText ==
    GenConfig.old \o GenConfig.new \o GenCallLLM.old \o GenCallLLM.new
        \o GenApiKeyRef.old \o GenApiKeyRef.new \o GenDispatch.old \o GenDispatch.new
        \o ReviewConfig.old \o ReviewConfig.new \o ReviewCallLLM.old \o ReviewCallLLM.new
        \o ReviewRunCommand.old \o ReviewRunCommand.new \o ReviewPrompt.old
        \o ReviewPrompt.new \o ReviewDescribe.old \o ReviewDescribe.new
        \o ReviewDispatch.old \o ReviewDispatch.new

LineNo(line) ==
    CHOOSE k \in 1..Len(AllText) :
        AllText[k] = line /\ \A j \in 1..(k - 1) : AllText[j] # line

Encode(text) == [k \in 1..Len(text) |-> LineNo(text[k])]

\* The old and new text of each call, as line numbers
Patterns ==
    [k \in 1..Len(Calls) |-> [old |-> Encode(Calls[k].old), new |-> Encode(Calls[k].new)]]

\* str.find(old, k): the offset of the first occurrence from offset k on, -1 if none
Find(text, old, k) ==
    LET at == {j \in k..(Len(text) - Len(old)) : SubSeq(text, j + 1, j + Len(old)) = old}
    IN IF at = {} THEN -1 ELSE CHOOSE j \in at : \A other \in at : j <= other

\* content.replace(old, new): every occurrence, left to right
RECURSIVE ReplaceEvery(_, _, _)
ReplaceEvery(text, old, new) ==
    LET k == Find(text, old, 0)
    IN IF k = -1 \/ old = <<>> THEN text
       ELSE SubSeq(text, 1, k) \o new
                \o ReplaceEvery(SubSeq(text, k + Len(old) + 1, Len(text)), old, new)

ReplaceInEvery(text, old, new) ==
    IF Find(text, old, 0) = -1
    THEN [content |-> text, found |-> FALSE]
    ELSE [content |-> ReplaceEvery(text, old, new), found |-> TRUE]

\* def replace_in(path, old, new): the file afterwards, and the value returned
ReplaceIn(text, old, new) ==
    LET k == Find(text, old, 0)
    IN IF k = -1
       THEN [content |-> text, found |-> FALSE]
       ELSE [content |-> SubSeq(text, 1, k) \o new \o SubSeq(text, k + Len(old) + 1, Len(text)),
             found |-> TRUE]

\* Both scripts run to the end on a file
RECURSIVE RunFrom(_, _)
RunFrom(text, k) ==
    IF k > Len(Calls) THEN text
    ELSE RunFrom(ReplaceIn(text, Patterns[k].old, Patterns[k].new).content, k + 1)

-----------------------------------------------------------------------------
(* Actions *)

\* Module load, once the scripts have run: POC_CFG is computed from the environment
LoadConfig ==
    /\ phase = "boot"
    /\ step = Len(Calls)
    /\ phase' = "loaded"
    /\ cfg' = PocCfg(env)
    /\ UNCHANGED <<fileContent, step, reported, env, stub, resolved, apiKey, apiUrl, toProcess, queue, activeCount, pc, timer, elapsed, attempt,
                   maxTokens, sent, log, sleeps, results, finished, settled, output>>

\* const limit = pLimit(...); Promise.all(toProcess.map(... limit(...))): every
\* task is queued in index order and the first ones are started
Dispatch ==
    /\ phase = "loaded"
    /\ phase' = "running"
    /\ IF cfg.concurrency < 1
       THEN \* pLimit throws a TypeError
            /\ settled' = "rejected"
            /\ UNCHANGED <<queue, activeCount, pc, timer>>
       ELSE LET n == Cardinality(Idx)
                k == AdmitCount(0, n, cfg.concurrency)
            IN /\ activeCount' = k
               /\ queue' = [j \in 1..(n - k) |-> k + j - 1]
               /\ pc' = [i \in Idx |-> IF i < k THEN PcAdmitted(i) ELSE "queued"]
               /\ timer' = [i \in Idx |-> IF i < k THEN TimerAdmitted(i) ELSE 0]
               /\ UNCHANGED settled
    /\ UNCHANGED <<fileContent, step, reported, env, cfg, stub, resolved, apiKey, apiUrl, toProcess, elapsed, attempt, maxTokens, sent, log,
                   sleeps, results, finished, output>>

\* A limiter that never starts a waiting task when a slot is freed
HasWaitingNever(q) == FALSE

\* pLimit next(): if (queue.length > 0) the head of the queue is started
HasWaiting(q) == q # <<>>

\* The limiter task of index i has finished with callLLM's result r: its
\* promise settles, and pLimit's next() frees the slot and starts the head of
\* the queue.  pcs and timers are the values the caller has computed for i.
Settle(i, r) ==
    \E o \in {GenerateSinglePoC(toProcess[i], r)} :
    LET more == HasWaiting(queue)
        j == IF more THEN Head(queue) ELSE i
    IN /\ results' = IF o.kind = "return"
                     THEN [results EXCEPT ![ResultSlot(i, Len(finished))] = o.value]
                     ELSE results
       /\ settled' = IF o.kind = "throw" /\ settled = "pending" THEN "rejected" ELSE settled
       /\ finished' = Append(finished, i)
       /\ queue' = IF more THEN Tail(queue) ELSE queue
       /\ activeCount' = IF more THEN activeCount ELSE activeCount - 1
       /\ pc' = [k \in Idx |-> IF k = i THEN "done"
                                ELSE IF more /\ k = j THEN PcAdmitted(j) ELSE pc[k]]
       /\ timer' = [k \in Idx |-> IF k = i THEN 0
                                   ELSE IF more /\ k = j THEN TimerAdmitted(j) ELSE timer[k]]
       /\ elapsed' = [k \in Idx |-> IF more /\ k = j THEN 0 ELSE elapsed[k]]

\* The cooldown sleep of index i is over
CooldownWake(i) ==
    /\ pc[i] = "cooldown"
    /\ timer[i] = 0
    /\ pc' = [pc EXCEPT ![i] = "calling"]
    /\ UNCHANGED <<fileContent, step, reported, env, phase, cfg, stub, resolved, apiKey, apiUrl, toProcess, queue, activeCount, timer, elapsed,
                   attempt, maxTokens, sent, log, sleeps, results, finished, settled, output>>

\* An abort timer armed with twice the configured time
AbortTimeoutDoubled == 2 * cfg.timeoutMs

\* setTimeout(() => controller.abort(), POC_CFG.timeoutMs)
AbortTimeout == cfg.timeoutMs

\* The working value kept across calls: the previous item's, once it has one
InitialMaxTokensCarried(i) ==
    IF i > 0 /\ maxTokens[i - 1] > 0 THEN maxTokens[i - 1] ELSE cfg.maxTokens

\* let maxTokens = POC_CFG.maxTokens
InitialMaxTokens(i) == cfg.maxTokens

\* callLLM is entered: the credential check, then the first pass of the loop
\* up to its fetch.  With retries < 0 the loop body never runs and what follows
\* the loop is not among the patched lines: no batch is run under such a value.
CallLLM(i) ==
    /\ pc[i] = "calling"
    /\ cfg.retries >= 0
    /\ resolved' = [resolved EXCEPT ![i] = ResolvePocProvider(env)]
    /\ apiKey' = [apiKey EXCEPT ![i] = GetPocApiKey(env)]
    /\ IF ~Truthy(GetPocApiKey(env))
       THEN /\ Settle(i, Throw(Err("config", 0, <<>>)))
            /\ UNCHANGED <<apiUrl, attempt, maxTokens, sent>>
       ELSE /\ apiUrl' = [apiUrl EXCEPT ![i] = GetPocApiUrl(env)]
            /\ attempt' = [attempt EXCEPT ![i] = 0]
            /\ maxTokens' = [maxTokens EXCEPT ![i] = InitialMaxTokens(i)]
            /\ sent' = [sent EXCEPT ![i] = Append(@, InitialMaxTokens(i))]
            /\ pc' = [pc EXCEPT ![i] = "inflight"]
            /\ timer' = [timer EXCEPT ![i] = AbortTimeout]
            /\ UNCHANGED <<queue, activeCount, elapsed, results, finished, settled>>
    /\ UNCHANGED <<fileContent, step, reported, env, phase, cfg, stub, toProcess, log, sleeps, output>>

\* fetch has settled with r (clearTimeout) and the rest of the pass runs: up
\* to the sleep, the return or the throw
Receive(i, r) ==
    /\ log' = [log EXCEPT ![i] = Append(@, r)]
    /\ \E h \in {HandleResponse(r, attempt[i], maxTokens[i], cfg.retries)} :
          IF h.next = "sleep"
          THEN /\ pc' = [pc EXCEPT ![i] = "backoff"]
               /\ timer' = [timer EXCEPT ![i] = h.delay]
               /\ maxTokens' = [maxTokens EXCEPT ![i] = h.maxTokens]
               /\ sleeps' = [sleeps EXCEPT ![i] = Append(@, h.delay)]
               /\ UNCHANGED <<queue, activeCount, elapsed, results, finished, settled>>
          ELSE /\ Settle(i, h)
               /\ UNCHANGED <<maxTokens, sleeps>>
    /\ UNCHANGED <<fileContent, step, reported, env, phase, cfg, stub, resolved, apiKey, apiUrl, toProcess, attempt, sent, output>>

\* The provider answers with r, or the transport fails (r = RNetDown).  RAbort
\* in stub stands for a provider that may leave a request unanswered.
Respond(i, r) ==
    /\ pc[i] = "inflight"
    /\ r \in stub
    /\ r # RAbort
    /\ Receive(i, r)

\* The abort timer fires on a request still in flight: fetch rejects
AbortFires(i) ==
    /\ pc[i] = "inflight"
    /\ timer[i] = 0
    /\ Receive(i, RAbort)

\* The sleep inside callLLM is over: continue, attempt++, and the next fetch
BackoffWake(i) ==
    /\ pc[i] = "backoff"
    /\ timer[i] = 0
    /\ attempt' = [attempt EXCEPT ![i] = @ + 1]
    /\ sent' = [sent EXCEPT ![i] = Append(@, maxTokens[i])]
    /\ pc' = [pc EXCEPT ![i] = "inflight"]
    /\ timer' = [timer EXCEPT ![i] = AbortTimeout]
    /\ UNCHANGED <<fileContent, step, reported, env, phase, cfg, stub, resolved, apiKey, apiUrl, toProcess, queue, activeCount, elapsed,
                   maxTokens, log, sleeps, results, finished, settled, output>>

\* TickMs milliseconds pass.  A due abort fires before more time passes.  The
\* time a request has been in flight is followed only where the provider may
\* stay silent (RAbort in stub); elsewhere it answers before the abort is due.
Tick ==
    /\ phase = "running"
    /\ \E i \in Idx : \/ (pc[i] \in {"cooldown", "backoff"} /\ timer[i] > 0)
                      \/ (pc[i] # "queued" /\ elapsed[i] < cfg.interRequestDelayMs)
                      \/ (pc[i] = "inflight" /\ timer[i] > 0 /\ RAbort \in stub)
    /\ \A i \in Idx : ~(pc[i] = "inflight" /\ timer[i] = 0)
    /\ Active # {}
    /\ timer' = [i \in Idx |->
                    IF pc[i] = "inflight" /\ RAbort \notin stub THEN timer[i]
                    ELSE IF timer[i] > TickMs THEN timer[i] - TickMs ELSE 0]
    /\ elapsed' = [i \in Idx |-> IF pc[i] = "queued" THEN elapsed[i]
                                 ELSE Min(elapsed[i] + TickMs, cfg.interRequestDelayMs)]
    /\ UNCHANGED <<fileContent, step, reported, env, phase, cfg, stub, resolved, apiKey, apiUrl, toProcess, queue, activeCount, pc, attempt,
                   maxTokens, sent, log, sleeps, results, finished, settled, output>>

\* Promise.all fulfils once every promise has
PromiseAll ==
    /\ phase = "running"
    /\ settled = "pending"
    /\ \A i \in Idx : pc[i] = "done"
    /\ settled' = "fulfilled"
    /\ output' = results
    /\ UNCHANGED <<fileContent, step, reported, env, phase, cfg, stub, resolved, apiKey, apiUrl, toProcess, queue, activeCount, pc, timer, elapsed,
                   attempt, maxTokens, sent, log, sleeps, results, finished>>

\* The next replace_in call of the scripts
RunReplaceIn ==
    /\ step < Len(Calls)
    /\ \E r \in {ReplaceIn(fileContent, Patterns[step + 1].old, Patterns[step + 1].new)} :
          /\ fileContent' = r.content
          /\ reported' = Append(reported, r.found)
    /\ step' = step + 1
    /\ UNCHANGED <<env, phase, cfg, stub, resolved, apiKey, apiUrl, toProcess, queue, activeCount,
                   pc, timer, elapsed, attempt, maxTokens, sent, log, sleeps, results, finished,
                   settled, output>>

Next ==
    \/ RunReplaceIn
    \/ LoadConfig
    \/ Dispatch
    \/ \E i \in Idx : CooldownWake(i)
    \/ \E i \in Idx : CallLLM(i)
    \/ \E i \in Idx : \E r \in AllResponses \cup LongResponses : Respond(i, r)
    \/ \E i \in Idx : AbortFires(i)
    \/ \E i \in Idx : BackoffWake(i)
    \/ Tick
    \/ PromiseAll

-----------------------------------------------------------------------------
(* Initial states *)

DigitStr(n) == <<Digits[n + 1]>>

Str8192 == <<"8", "1", "9", "2">>
Str1000 == <<"1", "0", "0", "0">>
Str2000 == <<"2", "0", "0", "0">>
Str2048 == <<"2", "0", "4", "8">>
Str3000 == <<"3", "0", "0", "0">>
Str5000 == <<"5", "0", "0", "0">>

BaseEnv ==
    [POC_PROVIDER |-> Unset, KIMI_CODE_API_KEY |-> Unset, MOONSHOT_API_KEY |-> Unset,
     LLM_POC_MAX_TOKENS |-> Unset, LLM_POC_TIMEOUT_MS |-> Unset, LLM_POC_RETRIES |-> Unset,
     LLM_POC_CONCURRENCY |-> Unset, LLM_POC_MAX |-> Unset, LLM_POC_DELAY_MS |-> Unset]

\* Findings of one class: the first two differ in the title only, the third
\* and those after it are the first one again
SameClassFinding(idx) ==
    MakeFinding(42, ClassNameSigner, IF idx = 1 THEN TitleOwner ELSE TitleSigner)

EngineAtBoot(n, findings) ==
    /\ phase = "boot"
    /\ cfg = NoCfg
    /\ toProcess = findings
    /\ queue = <<>>
    /\ activeCount = 0
    /\ pc = [i \in 0..(n - 1) |-> "queued"]
    /\ timer = [i \in 0..(n - 1) |-> 0]
    /\ elapsed = [i \in 0..(n - 1) |-> 0]
    /\ resolved = [i \in 0..(n - 1) |-> <<>>]
    /\ apiKey = [i \in 0..(n - 1) |-> Unset]
    /\ apiUrl = [i \in 0..(n - 1) |-> <<>>]
    /\ attempt = [i \in 0..(n - 1) |-> NotStarted]
    /\ maxTokens = [i \in 0..(n - 1) |-> 0]
    /\ sent = [i \in 0..(n - 1) |-> <<>>]
    /\ log = [i \in 0..(n - 1) |-> <<>>]
    /\ sleeps = [i \in 0..(n - 1) |-> <<>>]
    /\ results = [i \in 0..(n - 1) |-> NoOutcome]
    /\ finished = <<>>
    /\ settled = "pending"
    /\ output = <<>>

Blank == Encode(<<"">>)

RECURSIVE Copies(_, _)
Copies(text, n) == IF n = 0 THEN <<>> ELSE text \o Blank \o Copies(text, n - 1)

\* llm-poc-generator.ts before the scripts: the sections fix-poc-gen.py looks
\* for, and p, d, r copies of the prompt rules, the fallback describe and the
\* runCommand that only fix-poc-review.py looks for
OriginalFile(p, d, r) ==
    Patterns[1].old \o Blank \o Patterns[2].old \o Blank
        \o Copies(Patterns[8].old, p) \o Copies(Patterns[9].old, d)
        \o Patterns[3].old \o Blank \o Patterns[4].old \o Blank
        \o Copies(Patterns[7].old, r)

PatchedFile == RunFrom(OriginalFile(1, 1, 1), 1)

\* The engine as both scripts leave it, about to be loaded
InitRunOf(n, findings) ==
    /\ EngineAtBoot(n, findings)
    /\ fileContent = PatchedFile
    /\ step = Len(Calls)
    /\ reported = [k \in 1..Len(Calls) |-> TRUE]

InitRun(n) == InitRunOf(n, [i \in 0..(n - 1) |-> Finding(i)])

\* A batch of NumItems findings against a provider that succeeds, rate-limits
\* or rejects the request
BatchStub == {R200Text, R429, R400Plain}

BatchRetries == {0, 1}

InitBatch ==
    /\ \E c \in 1..MaxConcurrency, r \in BatchRetries, k \in {Unset, Str(SecretKimi)} :
          env = [BaseEnv EXCEPT !.LLM_POC_CONCURRENCY = Str(DigitStr(c)),
                                !.LLM_POC_RETRIES = Str(DigitStr(r)),
                                !.KIMI_CODE_API_KEY = k]
    /\ stub = BatchStub
    /\ InitRun(NumItems)

\* A batch of findings of one class, against a provider that succeeds or
\* rejects the request
InitSameClass ==
    /\ env = [BaseEnv EXCEPT !.LLM_POC_CONCURRENCY = Str(DigitStr(MaxConcurrency)),
                             !.LLM_POC_RETRIES = Str(DigitStr(0)),
                             !.KIMI_CODE_API_KEY = Str(SecretKimi),
                             !.LLM_POC_DELAY_MS = Str(Str1000)]
    /\ stub = {R200Text, R400Plain}
    /\ InitRunOf(NumItems, [i \in 0..(NumItems - 1) |-> SameClassFinding(i)])

\* A batch against a provider that succeeds or finds the request too long
InitDownshift ==
    /\ \E c \in 1..MaxConcurrency :
          env = [BaseEnv EXCEPT !.LLM_POC_CONCURRENCY = Str(DigitStr(c)),
                                !.LLM_POC_RETRIES = Str(DigitStr(1)),
                                !.KIMI_CODE_API_KEY = Str(SecretKimi),
                                !.LLM_POC_DELAY_MS = Str(Str1000)]
    /\ stub = {R200Text, R400Token}
    /\ InitRun(NumItems)

\* One execute call against a provider that may answer anything
InitExec ==
    /\ \E r \in 0..MaxRetries, t \in {Unset, Str(Str8192)}, k \in {Unset, Str(SecretKimi)} :
          env = [BaseEnv EXCEPT !.LLM_POC_RETRIES = Str(DigitStr(r)),
                                !.LLM_POC_TIMEOUT_MS = Str(Str2000),
                                !.LLM_POC_MAX_TOKENS = t,
                                !.KIMI_CODE_API_KEY = k]
    /\ stub = AllResponses
    /\ InitRun(1)

\* One execute call against a provider whose error bodies are long
InitLong ==
    /\ \E r \in {0, 1} :
          env = [BaseEnv EXCEPT !.LLM_POC_RETRIES = Str(DigitStr(r)),
                                !.MOONSHOT_API_KEY = Str(SecretMoonshot)]
    /\ stub = LongResponses
    /\ InitRun(1)

\* One execute call under every setting of the override and of the credentials,
\* against a provider that answers at once
Overrides ==
    {Unset, Str(<<>>), Str(NameKimiCode), Str(NameMoonshot), Str(OverrideMoonshotUpper),
     Str(OverrideKimiMixed), Str(OverrideAuto), Str(OverrideOther), Str(OverridePadded)}

InitResolve ==
    /\ \E p \in Overrides, k \in {Unset, Str(<<>>), Str(SecretKimi)},
          m \in {Unset, Str(SecretMoonshot)} :
          env = [BaseEnv EXCEPT !.POC_PROVIDER = p,
                                !.KIMI_CODE_API_KEY = k,
                                !.MOONSHOT_API_KEY = m]
    /\ stub = {R200Text}
    /\ InitRun(1)

\* One execute call under a max_tokens setting at or above the floor, against a
\* provider that answers with the text or with a token-limit 400
InitFloor ==
    /\ \E r \in 1..MaxRetries, t \in {Str(Str2048), Str(Str3000), Str(Str5000), Str(Str8192)} :
          env = [BaseEnv EXCEPT !.LLM_POC_RETRIES = Str(DigitStr(r)),
                                !.LLM_POC_MAX_TOKENS = t,
                                !.KIMI_CODE_API_KEY = Str(SecretKimi)]
    /\ stub = {R200Text, R400Token}
    /\ InitRun(1)

\* The scripts about to run on an original file
InitPatch ==
    /\ env = BaseEnv
    /\ stub = {}
    /\ EngineAtBoot(0, <<>>)
    /\ \E p \in 0..MaxCopies, d \in 0..MaxCopies, r \in 0..MaxCopies :
          fileContent = OriginalFile(p, d, r)
    /\ step = 0
    /\ reported = <<>>

\* Module load under any value of one configuration variable; nothing to dispatch
EnvChars == {"0", "1", "7", "-", "x", " "}

RECURSIVE StringsUpTo(_)
StringsUpTo(n) ==
    IF n = 0 THEN {<<>>}
    ELSE LET shorter == StringsUpTo(n - 1)
         IN shorter \cup {Append(s, c) : s \in shorter, c \in EnvChars}

EnvValues == {Unset} \cup {Str(s) : s \in StringsUpTo(MaxStrLen)}

InitCfg ==
    /\ \E key \in CfgKeys, v \in EnvValues : env = [BaseEnv EXCEPT ![key] = v]
    /\ stub = {}
    /\ InitRun(0)

Init ==
    \/ InitBatch
    \/ InitSameClass
    \/ InitDownshift
    \/ InitExec
    \/ InitLong
    \/ InitFloor
    \/ InitPatch
    \/ InitResolve
    \/ InitCfg

Spec == Init /\ [][Next]_vars

\* The event loop runs every callback that is ready, time passes, and a request
\* in flight is answered or aborted: some step is taken whenever one can be.
\* No step can be repeated for ever (attempts, timers and queues only run
\* down), so this is all the scheduling the dispatch needs.
FairSpec == Spec /\ WF_vars(Next)

-----------------------------------------------------------------------------
(* What the claims speak of *)

Last(s) == s[Len(s)]

\* The 2xx responses whose text is not empty and not only whitespace
GoodTexts ==
    {r \in AllResponses : Ok(r) /\ Truthy(r.content) /\ Trim(r.content.val) # <<>>}

GoodText(r) == r \in GoodTexts

\* The call of index i ended with a usable text
EndedWell(i) == log[i] # <<>> /\ GoodText(Last(log[i]))

Is429(r) == r.status = 429
Is429Or5xx(r) == r.status = 429 \/ (r.status >= 500 /\ r.status <= 599)

\* The 400 responses whose body, letter case aside, holds a marker of each kind
TransientMarkedSet ==
    {r \in AllResponses :
        r.status = 400 /\ \E t \in TransientMarkers : Includes(ToLowerCase(r.body), t)}

TokenMarkedSet ==
    {r \in AllResponses :
        r.status = 400 /\ \E t \in TokenLimitMarkers : Includes(ToLowerCase(r.body), t)}

TransientMarked(r) == r \in TransientMarkedSet

TokenMarked(r) == r \in TokenMarkedSet

Unmarked400(r) == r.status = 400 /\ ~TransientMarked(r) /\ ~TokenMarked(r)

\* The resolved provider has no credential
NoCredential ==
    LET provider == ResolvePocProvider(env)
    IN \/ provider = NameKimiCode /\ ~Truthy(env.KIMI_CODE_API_KEY)
       \/ provider = NameMoonshot /\ ~Truthy(env.MOONSHOT_API_KEY)

-----------------------------------------------------------------------------
(* C1: the dispatch returns one Outcome per item, and the Outcome at index i
   is the one produced for the item at index i, whatever the order in which
   the calls completed. *)
C1_OutputAligned ==
    /\ \A i \in Idx :
          /\ (results[i].status # "none") <=> (pc[i] = "done")
          /\ results[i].status # "none" => results[i].finding = toProcess[i]
    /\ settled = "fulfilled" =>
          /\ DOMAIN output = DOMAIN toProcess
          /\ \A i \in Idx :
                /\ output[i].status \in {"generated", "failed"}
                /\ output[i].finding = toProcess[i]
                /\ output[i].status = "generated" => output[i].text = Last(log[i]).content.val

\* Three items returned although the second one completed first
C1_Witness ==
    /\ settled = "fulfilled"
    /\ Len(finished) = 3
    /\ finished[1] = 1
    /\ output[1].finding = toProcess[1]

(* C2: a terminal failure of one item stays in that item's Outcome: the
   dispatch does not reject, no sibling is left behind when the limiter runs
   empty, and every index holds Failure or Success according to how its own
   call ended. *)
C2_FailureIsolated ==
    /\ cfg.concurrency >= 1 => settled # "rejected"
    /\ (phase = "running" /\ cfg.concurrency >= 1 /\ Active = {}) =>
          \A i \in Idx : pc[i] = "done"
    /\ \A i \in Idx :
          pc[i] = "done" =>
              results[i].status = (IF EndedWell(i) THEN "generated" ELSE "failed")
    /\ settled = "fulfilled" =>
          \A i \in Idx :
              output[i].status = (IF EndedWell(i) THEN "generated" ELSE "failed")

\* Failure, Success, Success: the first item fails for good before its siblings run
C2_Witness ==
    /\ settled = "fulfilled"
    /\ finished = <<0, 1, 2>>
    /\ log[0] = <<R400Plain>>
    /\ output[0].status = "failed"
    /\ output[0].error.kind = "deterministic"
    /\ output[1].status = "generated"
    /\ output[2].status = "generated"

(* C3: at no time are more than cfg.concurrency items admitted and unfinished,
   the ones sleeping in cooldown or backoff included. *)
C3_ConcurrencyCap ==
    (phase = "running" /\ cfg.concurrency >= 1) =>
        /\ Cardinality(Active) <= cfg.concurrency
        /\ Cardinality({i \in Idx : pc[i] = "inflight"}) <= cfg.concurrency

\* The limiter is full, one item sleeps, one has its request out, one waits
C3_Witness ==
    /\ cfg.concurrency = 2
    /\ Cardinality(Active) = 2
    /\ queue # <<>>
    /\ \E i \in Idx : pc[i] = "backoff"
    /\ \E i \in Idx : pc[i] = "inflight"

(* C8: with concurrency 1, the first request of item N+1 is issued no earlier
   than interRequestDelayMs after the limiter admitted item N. *)
C8_CooldownAfterAdmission ==
    cfg.concurrency = 1 =>
        \A i \in Idx :
            (i > 0 /\ sent[i] # <<>>) => elapsed[i - 1] >= cfg.interRequestDelayMs

\* The third item's request is out, under the default delay
C8_Witness ==
    /\ Cardinality(Idx) = 3
    /\ cfg.concurrency = 1
    /\ cfg.interRequestDelayMs = 2000
    /\ sent[1] # <<>>
    /\ sent[2] # <<>>
    /\ pc[2] = "inflight"

(* C4: when the provider answers 429 to the first `retries` requests of a call
   and then a usable 2xx, the call keeps asking after each 429, returns that
   text, and has issued exactly retries + 1 requests. *)
C4_SucceedsAfterRetries ==
    \A i \in Idx :
        LET L == log[i]
            n == Len(L)
        IN /\ (n >= 1 /\ n <= cfg.retries /\ \A k \in 1..n : Is429(L[k])) =>
                  /\ pc[i] \in {"backoff", "inflight"}
                  /\ Len(sent[i]) \in {n, n + 1}
           /\ (n = cfg.retries + 1 /\ GoodText(L[n]) /\ \A k \in 1..(n - 1) : Is429(L[k])) =>
                  /\ pc[i] = "done"
                  /\ results[i].status = "generated"
                  /\ results[i].text = L[n].content.val
                  /\ Len(sent[i]) = cfg.retries + 1

\* Two 429s, then the text, with retries = 2
C4_Witness ==
    /\ 0 \in Idx
    /\ cfg.retries = 2
    /\ log[0] = <<R429, R429, R200Text>>
    /\ results[0].status = "generated"
    /\ Len(sent[0]) = 3

(* C5: a 400 whose body has neither a transient nor a token-limit marker ends
   the call on that attempt: it is the last response, the call has failed, no
   request follows it and no sleep; as the first response it leaves exactly
   one request made and the attempt counter at 0. *)
C5_Deterministic400FailsFast ==
    \A i \in Idx :
        \A k \in 1..Len(log[i]) :
            Unmarked400(log[i][k]) =>
                /\ k = Len(log[i])
                /\ pc[i] = "done"
                /\ results[i].status = "failed"
                /\ Len(sent[i]) = k
                /\ Len(sleeps[i]) = k - 1
                /\ attempt[i] = k - 1
                /\ k = 1 => (Len(sent[i]) = 1 /\ sleeps[i] = <<>> /\ attempt[i] = 0)

\* "invalid model" as the first response, with retries to spare
C5_Witness ==
    /\ 0 \in Idx
    /\ cfg.retries = 2
    /\ log[0] = <<R400Plain>>
    /\ pc[0] = "done"
    /\ results[0].status = "failed"
    /\ Len(sent[0]) = 1

(* C6: a 400 whose body holds a transient marker in any letter case is retried
   like a 429 or 5xx: while attempts remain the call sleeps 3000 * 2^attempt ms
   and asks again, and it fails only on the attempt that has none left. *)
C6_Transient400Retried ==
    \A i \in Idx :
        \A k \in 1..Len(log[i]) :
            (TransientMarked(log[i][k]) \/ Is429Or5xx(log[i][k])) =>
                IF k - 1 < cfg.retries
                THEN /\ Len(sleeps[i]) >= k
                     /\ sleeps[i][k] = 3000 * 2 ^ (k - 1)
                     /\ (k = Len(log[i])) =>
                            /\ pc[i] \in {"backoff", "inflight"}
                            /\ pc[i] = "inflight" => Len(sent[i]) = k + 1
                ELSE /\ k = Len(log[i])
                     /\ pc[i] = "done"
                     /\ results[i].status = "failed"

\* "Rate Limit exceeded" twice: the second sleep is 6000 ms
C6_Witness ==
    /\ 0 \in Idx
    /\ cfg.retries = 2
    /\ log[0] = <<R400Transient, R400Transient>>
    /\ sleeps[0] = <<3000, 6000>>
    /\ pc[0] = "inflight"
    /\ Len(sent[0]) = 3

(* C7 as stated: after a 400 with a token-limit marker, while attempts remain
   and max_tokens is above 2048, the next request carries half the value. *)
C7_Original ==
    \A i \in Idx :
        \A k \in 1..Len(log[i]) :
            (TokenMarked(log[i][k]) /\ k - 1 < cfg.retries /\ sent[i][k] > 2048) =>
                IF Len(sent[i]) > k
                THEN sent[i][k + 1] = sent[i][k] \div 2
                ELSE pc[i] = "backoff" /\ maxTokens[i] = sent[i][k] \div 2

(* C7 amended: the same for a 400 with a token-limit marker and no transient
   marker; a body that holds both is retried with max_tokens unchanged. *)
C7_DownshiftHalves ==
    \A i \in Idx :
        \A k \in 1..Len(log[i]) :
            /\ (TokenMarked(log[i][k]) /\ ~TransientMarked(log[i][k])
                    /\ k - 1 < cfg.retries /\ sent[i][k] > 2048) =>
                  IF Len(sent[i]) > k
                  THEN sent[i][k + 1] = sent[i][k] \div 2
                  ELSE pc[i] = "backoff" /\ maxTokens[i] = sent[i][k] \div 2
            /\ (TokenMarked(log[i][k]) /\ TransientMarked(log[i][k])
                    /\ k - 1 < cfg.retries) =>
                  IF Len(sent[i]) > k
                  THEN sent[i][k + 1] = sent[i][k]
                  ELSE pc[i] = "backoff" /\ maxTokens[i] = sent[i][k]

\* "maximum context length exceeded" at 4096: the second request carries 2048
C7_Witness ==
    /\ 0 \in Idx
    /\ log[0] = <<R400Token>>
    /\ sent[0] = <<4096, 2048>>

(* C10: without a credential for the resolved provider the call fails before
   any request: nothing is sent, the attempt counter is never started, nothing
   is slept, and the failure is a configuration error. *)
C10_NoCredentialNoRequest ==
    NoCredential =>
        \A i \in Idx :
            /\ sent[i] = <<>>
            /\ log[i] = <<>>
            /\ sleeps[i] = <<>>
            /\ attempt[i] = NotStarted
            /\ pc[i] \notin {"inflight", "backoff"}
            /\ pc[i] = "done" =>
                   (results[i].status = "failed" /\ results[i].error.kind = "config")

\* POC_PROVIDER=MOONSHOT with only the Kimi Code key set
C10_Witness ==
    /\ 0 \in Idx
    /\ env.POC_PROVIDER = Str(OverrideMoonshotUpper)
    /\ Truthy(env.KIMI_CODE_API_KEY)
    /\ ~Truthy(env.MOONSHOT_API_KEY)
    /\ settled = "fulfilled"
    /\ output[0].error.kind = "config"
    /\ sent[0] = <<>>

-----------------------------------------------------------------------------
(* Provider resolution *)

\* The spellings of the two provider names, letter case aside
Recognized(v, name) ==
    /\ v.set
    /\ Len(v.val) = Len(name)
    /\ \A k \in 1..Len(name) :
          \/ v.val[k] = name[k]
          \/ \E u \in 1..Len(Uppers) : v.val[k] = Uppers[u] /\ name[k] = Lowers[u]

(* C11: callLLM works under the provider the override names, letter case
   aside, whatever credentials are present; with the override unset or naming
   no provider it works under Kimi Code when KIMI_CODE_API_KEY is present and
   under Moonshot when it is not. *)
C11_ResolveProvider ==
    \A i \in Idx :
        resolved[i] # <<>> =>
            resolved[i] =
                (IF Recognized(env.POC_PROVIDER, NameKimiCode) THEN NameKimiCode
                 ELSE IF Recognized(env.POC_PROVIDER, NameMoonshot) THEN NameMoonshot
                 ELSE IF env.KIMI_CODE_API_KEY.set /\ env.KIMI_CODE_API_KEY.val # <<>>
                      THEN NameKimiCode
                 ELSE NameMoonshot)

\* POC_PROVIDER=Kimi_Code with only the Moonshot key present
C11_Witness ==
    /\ 0 \in Idx
    /\ env.POC_PROVIDER = Str(OverrideKimiMixed)
    /\ ~env.KIMI_CODE_API_KEY.set
    /\ env.MOONSHOT_API_KEY.set
    /\ resolved[0] = NameKimiCode
    /\ pc[0] = "done"

-----------------------------------------------------------------------------
(* The identifier token of an artifact *)

\* The first PoC#<digits> of a string, <<>> when it has none
RECURSIVE TokenIn(_)
TokenIn(s) ==
    IF Len(s) < 5 THEN <<>>
    ELSE IF SubSeq(s, 1, 4) = <<"P", "o", "C", "#">> /\ IsDigit(s[5])
    THEN SubSeq(s, 1, 4) \o DigitRun(SubSeq(s, 5, Len(s)))
    ELSE TokenIn(Tail(s))

(* C12: the PoC#<classId> token of the run command and of the fallback
   scaffold's header depends on the finding's class identifier only: every
   Outcome carries one, two findings of the same class carry the same one
   whatever their titles, and findings of different classes carry different
   ones. *)
C12_TokenFromClassId ==
    \A i \in Idx :
        results[i].status # "none" =>
            /\ TokenIn(results[i].runCommand) # <<>>
            /\ results[i].status = "failed" =>
                   TokenIn(results[i].scaffold) = TokenIn(results[i].runCommand)
            /\ \A j \in Idx :
                   (j > i /\ results[j].status # "none") =>
                       (toProcess[i].classId = toProcess[j].classId
                            <=> TokenIn(results[i].runCommand) = TokenIn(results[j].runCommand))

\* Same class, different titles, one generated and one fallen back; and the
\* first finding over again
C12_Witness ==
    /\ Cardinality(Idx) = 3
    /\ settled = "fulfilled"
    /\ toProcess[0].classId = toProcess[1].classId
    /\ toProcess[0].title # toProcess[1].title
    /\ toProcess[2] = toProcess[0]
    /\ output[0].status = "generated"
    /\ output[1].status = "failed"
    /\ TokenIn(output[0].runCommand) = TokenIn(output[1].scaffold)
    /\ TokenIn(output[2].runCommand) = TokenIn(output[0].runCommand)

-----------------------------------------------------------------------------
(* C13: a downshift stays inside the call that made it: the first request of
   every call carries the configured maxTokens, whatever earlier or concurrent
   calls did to their working value, and POC_CFG is what module load made it. *)
C13_DownshiftDoesNotLeak ==
    /\ \A i \in Idx : sent[i] # <<>> => sent[i][1] = cfg.maxTokens
    /\ phase # "boot" => cfg = PocCfg(env)
    /\ (phase # "boot" /\ Idx # {} /\ ~env.LLM_POC_MAX_TOKENS.set) => cfg.maxTokens = 4096

\* The first item has been downshifted to 2048 and is still asking when the
\* second one sends its first request
C13_Witness ==
    /\ Cardinality(Idx) = 3
    /\ sent[0] = <<4096, 2048>>
    /\ pc[0] = "inflight"
    /\ maxTokens[0] = 2048
    /\ sent[1] = <<4096>>

-----------------------------------------------------------------------------
(* Empty answers *)

\* The 2xx responses with no text, or with whitespace only
EmptyTexts ==
    {r \in AllResponses :
        /\ r.status >= 200 /\ r.status <= 299
        /\ \/ ~r.content.set
           \/ \A k \in 1..Len(r.content.val) : r.content.val[k] \in {" ", "\t", "\n"}}

EmptyText(r) == r \in EmptyTexts

(* C14 as stated: the first empty 2xx of a call is followed by a 1000 ms sleep
   and one more request, and an empty 2xx that follows an empty 2xx ends the
   call with the "empty response" failure. *)
C14_Original ==
    \A i \in Idx :
        \A k \in 1..Len(log[i]) :
            EmptyText(log[i][k]) =>
                IF k = 1 \/ ~EmptyText(log[i][k - 1])
                THEN /\ Len(sleeps[i]) >= k
                     /\ sleeps[i][k] = 1000
                ELSE /\ k = Len(log[i])
                     /\ pc[i] = "done"
                     /\ results[i].error.kind = "empty"

(* C14 amended: an empty 2xx draws on the attempt counter like every retry.
   While attempts remain it is followed by a 1000 ms sleep and another
   request, as many times as attempts remain; on the attempt that has none
   left (the first one when retries is 0) it ends the call with the "empty
   response" failure. *)
C14_EmptyRetriedWhileAttemptsRemain ==
    \A i \in Idx :
        \A k \in 1..Len(log[i]) :
            EmptyText(log[i][k]) =>
                IF k - 1 < cfg.retries
                THEN /\ Len(sleeps[i]) >= k
                     /\ sleeps[i][k] = 1000
                     /\ (k = Len(log[i])) =>
                            /\ pc[i] \in {"backoff", "inflight"}
                            /\ pc[i] = "inflight" => Len(sent[i]) = k + 1
                ELSE /\ k = Len(log[i])
                     /\ pc[i] = "done"
                     /\ results[i].status = "failed"
                     /\ results[i].error.kind = "empty"

\* Three blank answers under retries = 2: two sleeps of 1000 ms, then the failure
C14_Witness ==
    /\ 0 \in Idx
    /\ cfg.retries = 2
    /\ log[0] = <<R200Blank, R200Missing, R200Blank>>
    /\ sleeps[0] = <<1000, 1000>>
    /\ Len(sent[0]) = 3
    /\ results[0].error.kind = "empty"

-----------------------------------------------------------------------------
(* C15: the part of a terminal failure's detail that quotes the response body
   is at most 300 characters long, whatever status ended the call and however
   long the body was. *)
C15_DetailTruncated ==
    \A i \in Idx :
        results[i].status = "failed" => Len(results[i].error.detail) <= 300

\* A 404 with a body of 301 characters has ended the call
C15_Witness ==
    /\ 0 \in Idx
    /\ log[0] # <<>>
    /\ Last(log[0]).status = 404
    /\ Len(Last(log[0]).body) = 301
    /\ results[0].status = "failed"

-----------------------------------------------------------------------------
(* C17: an answer whose status is not 2xx, 429, 5xx or 400 ends the call on
   that attempt, even with attempts to spare: it is the last response, no
   sleep and no request follow it, and the failure carries its status and its
   body. *)
OtherStatus(r) ==
    /\ r.status # 0
    /\ ~(r.status >= 200 /\ r.status <= 299)
    /\ r.status \notin {400, 429}
    /\ r.status < 500

C17_OtherStatusFailsFast ==
    \A i \in Idx :
        \A k \in 1..Len(log[i]) :
            OtherStatus(log[i][k]) =>
                /\ k = Len(log[i])
                /\ pc[i] = "done"
                /\ results[i].status = "failed"
                /\ results[i].error.status = log[i][k].status
                /\ results[i].error.detail = log[i][k].body
                /\ Len(sent[i]) = k
                /\ Len(sleeps[i]) = k - 1

\* A 404 after one 429, with one more attempt left
C17_Witness ==
    /\ 0 \in Idx
    /\ cfg.retries = 2
    /\ log[0] = <<R429, R404>>
    /\ Len(sent[0]) = 2
    /\ results[0].status = "failed"
    /\ results[0].error.status = 404

-----------------------------------------------------------------------------
(* C18: with concurrency >= 1 a dispatch returns: every item that waits for a
   slot is admitted in the end, every item finishes, and Promise.all
   fulfils. *)
C18_DispatchReturns ==
    (phase = "running" /\ cfg.concurrency >= 1)
        ~> (settled = "fulfilled" /\ queue = <<>> /\ \A i \in Idx : pc[i] = "done")

\* The last of three items waits for the only slot while the first sleeps in backoff
C18_Witness ==
    /\ Cardinality(Idx) = 3
    /\ cfg.concurrency = 1
    /\ pc[0] = "backoff"
    /\ queue = <<1, 2>>

-----------------------------------------------------------------------------
(* C19: whatever the provider answers, a call sends at most retries + 1
   requests.  Every sleep before a retry, whichever response caused it,
   advances the one attempt counter; the call is over at the latest with the
   response to request retries + 1, and it is over with the text (the last
   response carried one) or with a failure. *)
C19_AttemptsShared ==
    \A i \in Idx :
        LET n == Len(sent[i])
        IN /\ n <= cfg.retries + 1
           /\ Len(sleeps[i]) <= cfg.retries
           /\ Len(log[i]) <= n
           /\ n >= 1 =>
                 /\ attempt[i] = n - 1
                 /\ Len(sleeps[i]) = IF pc[i] = "backoff" THEN n ELSE n - 1
           /\ Len(log[i]) = cfg.retries + 1 => pc[i] = "done"
           /\ pc[i] = "done" =>
                 /\ results[i].status \in {"generated", "failed"}
                 /\ n >= 1 =>
                       /\ Len(log[i]) = n
                       /\ results[i].status = "generated" <=> GoodText(log[i][n])

\* A 500, a token-limit 400 and an empty 200 use up the attempts of retries = 2
C19_Witness ==
    /\ 0 \in Idx
    /\ cfg.retries = 2
    /\ log[0] = <<R500, R400Token, R200Missing>>
    /\ sleeps[0] = <<3000, 1000>>
    /\ sent[0] = <<4096, 4096, 2048>>
    /\ results[0].status = "failed"

-----------------------------------------------------------------------------
(* C20: with the configured max_tokens at or above 2048, every request of a
   call carries max_tokens >= 2048, and a token-limit 400 on a request whose
   max_tokens cannot be halved without going below 2048 ends the call with a
   failure. *)
C20_FloorKept ==
    \A i \in Idx :
        cfg.maxTokens >= TokenFloor =>
            /\ \A k \in 1..Len(sent[i]) : sent[i][k] >= TokenFloor
            /\ \A k \in 1..Len(log[i]) :
                  (/\ TokenMarked(log[i][k])
                   /\ ~TransientMarked(log[i][k])
                   /\ sent[i][k] \div 2 < TokenFloor) =>
                      /\ k = Len(log[i])
                      /\ pc[i] = "done"
                      /\ results[i].status = "failed"

\* LLM_POC_MAX_TOKENS = 3000 and a token-limit 400: the second request carries 1500
C20_Witness ==
    /\ 0 \in Idx
    /\ cfg.maxTokens = 3000
    /\ log[0] = <<R400Token>>
    /\ sent[0] = <<3000, 1500>>

-----------------------------------------------------------------------------
(* C21: within one call max_tokens is halved at most once: every request
   carries the configured value or half of it, and a token-limit 400 that
   follows a halving leaves max_tokens as it is. *)
C21_DownshiftOnce ==
    \A i \in Idx :
        /\ \A k \in 1..Len(sent[i]) : sent[i][k] \in {cfg.maxTokens, cfg.maxTokens \div 2}
        /\ pc[i] = "backoff" => maxTokens[i] \in {cfg.maxTokens, cfg.maxTokens \div 2}

\* LLM_POC_MAX_TOKENS = 8192 and two token-limit 400s: 8192, 4096, 2048
C21_Witness ==
    /\ 0 \in Idx
    /\ cfg.maxTokens = 8192
    /\ cfg.retries = 2
    /\ log[0] = <<R400Token, R400Token>>
    /\ sent[0] = <<8192, 4096, 2048>>

-----------------------------------------------------------------------------
(* C22: whatever the environment holds, the configuration that module load
   leaves is within its ranges: maxTokens > 0, retries >= 0, concurrency >= 1,
   maxPocs >= 0 and interRequestDelayMs >= 0. *)
C22_ConfigInRange ==
    phase # "boot" =>
        /\ cfg.maxTokens > 0
        /\ cfg.retries >= 0
        /\ cfg.concurrency >= 1
        /\ cfg.maxPocs >= 0
        /\ cfg.interRequestDelayMs >= 0

\* LLM_POC_CONCURRENCY = "0" is loaded as a cap of 0, and the limiter refuses it
C22_Witness ==
    /\ env.LLM_POC_CONCURRENCY = Str(<<"0">>)
    /\ cfg.concurrency = 0
    /\ phase = "running"
    /\ settled = "rejected"

-----------------------------------------------------------------------------
(* C23: with concurrency >= 1, the item of index 0 (the first the limiter
   admits) never waits a cooldown, and every other item is past its own
   admission by interRequestDelayMs before callLLM is entered for it, whatever
   has become of the items admitted before it; while it still waits, the time
   waited and the time left add up to interRequestDelayMs at least. *)
C23_CooldownBySchedule ==
    (phase = "running" /\ cfg.concurrency >= 1) =>
        \A i \in Idx :
            /\ i = 0 => pc[i] # "cooldown"
            /\ (i > 0 /\ pc[i] \in {"calling", "inflight", "backoff", "done"}) =>
                  elapsed[i] >= cfg.interRequestDelayMs
            /\ (i > 0 /\ pc[i] = "cooldown") =>
                  elapsed[i] + timer[i] >= cfg.interRequestDelayMs
            /\ (i > 0 /\ sent[i] # <<>>) => elapsed[i] >= cfg.interRequestDelayMs

\* Two slots: the first item has failed, the second has its request out, and
\* the third, admitted into the freed slot, waits its cooldown
C23_Witness ==
    /\ cfg.concurrency = 2
    /\ Cardinality(Idx) = 3
    /\ results[0].status = "failed"
    /\ sent[0] # <<>>
    /\ pc[1] = "inflight"
    /\ pc[2] = "cooldown"
    /\ timer[2] = cfg.interRequestDelayMs

-----------------------------------------------------------------------------
(* C24: a call fails with the "400 (deterministic)" error only on a 400 whose
   body has neither a transient nor a token-limit marker. *)
C24_DeterministicOnlyUnmarked ==
    \A i \in Idx :
        (pc[i] = "done" /\ results[i].status = "failed"
             /\ results[i].error.kind = "deterministic") =>
            /\ log[i] # <<>>
            /\ Unmarked400(Last(log[i]))

\* "rate limit exceeded" with retries = 0 fails as deterministic
C24_Witness ==
    /\ 0 \in Idx
    /\ cfg.retries = 0
    /\ log[0] = <<R400Transient>>
    /\ results[0].status = "failed"
    /\ results[0].error.kind = "deterministic"

-----------------------------------------------------------------------------
(* C25: every request goes to the endpoint of the provider callLLM resolved
   and carries that provider's own key, never the other provider's: the Kimi
   Code key to the Kimi Code endpoint, the Moonshot key to the Moonshot
   endpoint. *)
C25_KeyMatchesEndpoint ==
    \A i \in Idx :
        sent[i] # <<>> =>
            /\ apiKey[i].set /\ apiKey[i].val # <<>>
            /\ \/ /\ resolved[i] = NameKimiCode
                  /\ apiUrl[i] = UrlKimiCode
                  /\ apiKey[i] = env.KIMI_CODE_API_KEY
               \/ /\ resolved[i] = NameMoonshot
                  /\ apiUrl[i] = UrlMoonshot
                  /\ apiKey[i] = env.MOONSHOT_API_KEY

\* POC_PROVIDER=moonshot with both keys present: the Moonshot key goes to Moonshot
C25_Witness ==
    /\ 0 \in Idx
    /\ env.POC_PROVIDER = Str(NameMoonshot)
    /\ env.KIMI_CODE_API_KEY = Str(SecretKimi)
    /\ env.MOONSHOT_API_KEY = Str(SecretMoonshot)
    /\ sent[0] # <<>>
    /\ apiUrl[0] = UrlMoonshot
    /\ apiKey[0] = Str(SecretMoonshot)

-----------------------------------------------------------------------------
(* The patch scripts in sequence *)

\* The lines of t stand in text from offset k on
OccursAt(text, t, k) ==
    /\ k + Len(t) <= Len(text)
    /\ \A j \in 1..Len(t) : text[k + j] = t[j]

Occurs(text, t) == \E k \in 0..(Len(text) - Len(t)) : OccursAt(text, t, k)

\* after is before with its first occurrence of old, and nothing else, replaced
ReplacedFirst(before, after, old, new) ==
    \E k \in 0..(Len(before) - Len(old)) :
        /\ OccursAt(before, old, k)
        /\ \A j \in 0..(k - 1) : ~OccursAt(before, old, j)
        /\ after = SubSeq(before, 1, k) \o new \o SubSeq(before, k + Len(old) + 1, Len(before))

\* The calls whose pattern is an original section or a text fix-poc-gen.py
\* wrote: all four of fix-poc-gen.py, and config, callLLM and dispatch loop of
\* fix-poc-review.py
ComposedCalls == {1, 2, 3, 4, 5, 6, 10}

(* C26 as stated: once both scripts have run on a file that held the original
   config, callLLM and dispatch sections, every replacement of
   fix-poc-review.py has found its pattern and the file holds the callLLM
   with the content-based 400 handling. *)
C26_Original ==
    step = Len(Calls) =>
        /\ \A k \in (GenCalls + 1)..Len(Calls) : reported[k]
        /\ Occurs(fileContent, Patterns[6].new)

(* C26 amended: the config and the callLLM that fix-poc-gen.py writes are
   line for line the patterns of fix-poc-review.py, and its dispatch loop
   begins with the pattern of fix-poc-review.py's last replacement; on a file
   that held the original sections these three replacements, like the four of
   fix-poc-gen.py, find their pattern, and when the last call returns the file
   holds the new config, the callLLM with the content-based 400 handling and
   the new dispatch label.  The runCommand, prompt and describe replacements
   of fix-poc-review.py look for text fix-poc-gen.py never writes: each has
   taken effect exactly when it reported success.  Every call whose pattern is
   absent leaves the file as it is and returns False; every other call
   replaces the first occurrence only and returns True.  Nothing rewrites the
   file once the scripts have run. *)
C26_PatchesCompose ==
    [][/\ step' = step + 1 =>
             /\ GenConfig.new = ReviewConfig.old
             /\ GenCallLLM.new = ReviewCallLLM.old
             /\ OccursAt(GenDispatch.new, ReviewDispatch.old, 0)
             /\ IF Occurs(fileContent, Patterns[step'].old)
                THEN /\ reported' = Append(reported, TRUE)
                     /\ ReplacedFirst(fileContent, fileContent',
                                      Patterns[step'].old, Patterns[step'].new)
                ELSE /\ reported' = Append(reported, FALSE)
                     /\ fileContent' = fileContent
             /\ step' \in ComposedCalls => reported'[step']
             /\ step' = Len(Calls) =>
                   /\ Occurs(fileContent', Patterns[5].new)
                   /\ Occurs(fileContent', Patterns[6].new)
                   /\ Occurs(fileContent', Patterns[10].new)
                   /\ \A k \in 1..Len(Calls) :
                         k \notin ComposedCalls =>
                             (reported'[k] <=> Occurs(fileContent', Patterns[k].new))
       /\ step = Len(Calls) =>
             /\ step' = step
             /\ fileContent' = fileContent
             /\ reported' = reported]_vars

\* Two fallback describes and no prompt rules: the first describe is rewritten,
\* the second is left, and the prompt replacement has reported failure
C26_Witness ==
    /\ step = Len(Calls)
    /\ reported = <<TRUE, TRUE, TRUE, TRUE, TRUE, TRUE, TRUE, FALSE, TRUE, TRUE>>
    /\ \E k \in 0..Len(fileContent) :
          /\ OccursAt(fileContent, Patterns[9].new, k)
          /\ OccursAt(fileContent, Patterns[9].old, k + 2)
    /\ ~Occurs(fileContent, Patterns[8].new)

-----------------------------------------------------------------------------
(* The request timeout *)

\* fetch was rejected: by the abort timer, or by the transport
Rejected(r) == r.status = 0

\* A step in which time passes
TimePasses == pc' = pc /\ (timer' # timer \/ elapsed' # elapsed)

\* The abort timer has just ended the request of index i
AbortedNow(i) == Len(log'[i]) = Len(log[i]) + 1 /\ Last(log'[i]) = RAbort

(* C16: a request in flight has at most timeoutMs left before it is aborted,
   the abort ends it exactly when that time is up and no time passes beyond
   it, and a rejected fetch is treated like a 5xx: while attempts remain the
   call sleeps 3000 * 2^attempt ms and asks again, and on the attempt that has
   none left it fails for good. *)
C16_TimeoutLikeServerError ==
    /\ [](\A i \in Idx :
            /\ pc[i] = "inflight" => (timer[i] >= 0 /\ timer[i] <= cfg.timeoutMs)
            /\ \A k \in 1..Len(log[i]) :
                  Rejected(log[i][k]) =>
                      IF k - 1 < cfg.retries
                      THEN /\ Len(sleeps[i]) >= k
                           /\ sleeps[i][k] = 3000 * 2 ^ (k - 1)
                           /\ (k = Len(log[i])) => pc[i] \in {"backoff", "inflight"}
                      ELSE /\ k = Len(log[i])
                           /\ pc[i] = "done"
                           /\ results[i].status = "failed")
    /\ [][\A i \in Idx :
            /\ AbortedNow(i) => (pc[i] = "inflight" /\ timer[i] = 0)
            /\ (pc[i] = "inflight" /\ timer[i] = 0) => ~TimePasses]_vars

\* Unanswered twice under retries = 1 and timeoutMs = 2000: aborted, slept
\* 3000 ms, asked again, aborted, failed
C16_Witness ==
    /\ 0 \in Idx
    /\ cfg.retries = 1
    /\ cfg.timeoutMs = 2000
    /\ log[0] = <<RAbort, RAbort>>
    /\ sleeps[0] = <<3000>>
    /\ Len(sent[0]) = 2
    /\ results[0].status = "failed"
    /\ results[0].error.kind = "transport"

-----------------------------------------------------------------------------
(* Configuration claims *)

\* The POC_CFG field each variable sets, and the default the code documents
FieldOf(key) ==
    CASE key = "LLM_POC_MAX_TOKENS" -> "maxTokens"
      [] key = "LLM_POC_TIMEOUT_MS" -> "timeoutMs"
      [] key = "LLM_POC_RETRIES" -> "retries"
      [] key = "LLM_POC_CONCURRENCY" -> "concurrency"
      [] key = "LLM_POC_MAX" -> "maxPocs"
      [] key = "LLM_POC_DELAY_MS" -> "interRequestDelayMs"

DocumentedDefault(key) ==
    CASE key = "LLM_POC_MAX_TOKENS" -> 4096
      [] key = "LLM_POC_TIMEOUT_MS" -> 120000
      [] key = "LLM_POC_RETRIES" -> 2
      [] key = "LLM_POC_CONCURRENCY" -> 1
      [] key = "LLM_POC_MAX" -> 10
      [] key = "LLM_POC_DELAY_MS" -> 2000

\* An optional sign and one or more digits, nothing else
WellFormedInteger(s) ==
    LET d == IF s # <<>> /\ Head(s) \in {"-", "+"} THEN Tail(s) ELSE s
    IN d # <<>> /\ \A k \in 1..Len(d) : IsDigit(d[k])

\* After leading whitespace and an optional sign there is no digit
NoLeadingInteger(s) ==
    LET t == TrimStart(s)
        d == IF t # <<>> /\ Head(t) \in {"-", "+"} THEN Tail(t) ELSE t
    IN d = <<>> \/ ~IsDigit(Head(d))

(* C9 as stated: a variable that is unset, empty or not a well-formed integer
   leaves its field at the documented default. *)
C9_Original ==
    phase # "boot" =>
        \A key \in CfgKeys :
            (~env[key].set \/ env[key].val = <<>> \/ ~WellFormedInteger(env[key].val)) =>
                cfg[FieldOf(key)] = DocumentedDefault(key)

(* C9 amended: a variable that is unset, empty or does not start (after
   whitespace and a sign) with a digit leaves its field at the documented
   default, and every field is an integer; a value that starts with an
   integer and goes on with other characters resolves to that integer. *)
C9_DefaultWhenNotANumber ==
    phase # "boot" =>
        \A key \in CfgKeys :
            /\ cfg[FieldOf(key)] \in Int
            /\ (~env[key].set \/ env[key].val = <<>> \/ NoLeadingInteger(env[key].val)) =>
                   cfg[FieldOf(key)] = DocumentedDefault(key)
            /\ (env[key].set /\ ~NoLeadingInteger(env[key].val)) =>
                   Num(cfg[FieldOf(key)]) = ParseInt(env[key].val)
            /\ env[key] = Str(<<"1", "-">>) => cfg[FieldOf(key)] = 1
            /\ env[key] = Str(<<" ", "7">>) => cfg[FieldOf(key)] = 7
            /\ env[key] = Str(<<"-", "1">>) => cfg[FieldOf(key)] = -1

\* LLM_POC_RETRIES=x1 resolves to 2
C9_Witness ==
    /\ phase = "loaded"
    /\ env.LLM_POC_RETRIES = Str(<<"x", "1">>)
    /\ cfg.retries = 2

====
